---- MODULE Spec2Model ----
(***************************************************************************)
(* The recursive document-acquisition engine of                            *)
(* upload_pdf_app/backend/Webscraping/link_downloader.py: main,            *)
(* process_input_pdf, process_link and the fetch / adapter / render        *)
(* helpers they call, as a state machine over an explicit call stack.      *)
(*                                                                         *)
(* The web is a fixed synthetic site (PDF documents with a cycle and a     *)
(* diamond, two generic pages, Drive/Docs viewer URLs, two PDFs with the   *)
(* same file name).  Its responses are a function of the URL; what varies  *)
(* between behaviours is the command line, the iteration order of the      *)
(* unordered link sets, and a bounded number of environment failures       *)
(* (network, filesystem, browser, PDF parsing) injected into the calls.    *)
(***************************************************************************)
EXTENDS Integers, Sequences, FiniteSets, TLC

\* ------------------------------------------------------------- bounds
\* largest --depth value tried
MaxDepth == 2
\* environment failures injected into one run
MaxFaults == 1

\* ------------------------------------------------------------- text
\* A string is a sequence of tokens: the characters and words that the
\* patterns of the code tell apart.  "<LF>" is a line feed, "<SOH>" a control
\* character below 0x20 that is not white space, "<DEL>" the character 0x7F.

\* the None of the code
None == <<>>

\* longest raw file name tried
MaxName == 3
\* name[:200]
NameCap == 200

RECURSIVE lstrip(_, _)
lstrip(s, chars) ==
  IF s # <<>> /\ Head(s) \in chars THEN lstrip(Tail(s), chars) ELSE s

RECURSIVE rstrip(_, _)
rstrip(s, chars) ==
  IF s # <<>> /\ s[Len(s)] \in chars
    THEN rstrip(SubSeq(s, 1, Len(s) - 1), chars)
    ELSE s

\* str.strip(chars)
strip(s, chars) == rstrip(lstrip(s, chars), chars)

\* index of the first token of s at or after from that is in S, Len(s) + 1
\* when there is none
First(s, S, from) ==
  LET hits == {i \in from..Len(s) : s[i] \in S} IN
  IF hits = {} THEN Len(s) + 1 ELSE CHOOSE i \in hits : \A j \in hits : i <= j

RECURSIVE Split(_, _)
\* str.split(sep)
Split(s, sep) ==
  LET k == First(s, {sep}, 1) IN
  IF k > Len(s) THEN <<s>>
  ELSE <<SubSeq(s, 1, k - 1)>> \o Split(SubSeq(s, k + 1, Len(s)), sep)

\* sub in s, for a string sub
Contains(s, sub) ==
  \E i \in 0..(Len(s) - Len(sub)) : SubSeq(s, i + 1, i + Len(sub)) = sub

\* s.endswith(sub)
EndsWith(s, sub) ==
  Len(s) >= Len(sub) /\ SubSeq(s, Len(s) - Len(sub) + 1, Len(s)) = sub

\* str.lower
Lower(s) ==
  [i \in DOMAIN s |->
     CASE s[i] = ".PDF"            -> ".pdf"
       [] s[i] = "Application/PDF" -> "application/pdf"
       [] s[i] = "Document"        -> "document"
       [] OTHER                    -> s[i]]

\* urllib.parse.unquote
unquote(s) ==
  [i \in DOMAIN s |->
     CASE s[i] = "%2F" -> "/"
       [] s[i] = "%2E" -> "."
       [] OTHER        -> s[i]]

\* what str.strip() removes
Whitespace == {" ", "<LF>"}

\* the character class [<>:"/\\|?*\x00-\x1F] of sanitize_filename
Unsafe == {"<", ">", ":", "\"", "/", "\\", "|", "?", "*", "<SOH>", "<LF>"}

sanitize_filename(name) ==
  LET stripped == strip(unquote(name), Whitespace)
      spaced   == [i \in DOMAIN stripped |->
                     IF stripped[i] = "<LF>" THEN " " ELSE stripped[i]]
      subbed   == [i \in DOMAIN spaced |->
                     IF spaced[i] \in Unsafe THEN "_" ELSE spaced[i]]
      cut      == SubSeq(subbed, 1, IF Len(subbed) < NameCap THEN Len(subbed) ELSE NameCap)
  IN
  IF cut = <<>> THEN <<"file", ".pdf">> ELSE cut

\* content_disposition is what follows filename= (and an opening quote) in
\* the header, None when the header is absent or has no filename; group(1)
\* of the pattern ends at the first quote or semicolon and is not empty
filename_from_cd(content_disposition) ==
  LET group1 == SubSeq(content_disposition, 1,
                       First(content_disposition, {"\"", ";"}, 1) - 1)
  IN
  IF group1 = <<>> THEN None ELSE sanitize_filename(group1)

\* urllib.parse.urlparse of scheme://netloc/path?query#fragment; the first
\* token is the scheme with its "://"
urlparse(url) ==
  LET n  == First(url, {"/", "?", "#"}, 2)
      h  == First(url, {"#"}, 2)
      q0 == First(url, {"?"}, 2)
      q  == IF q0 < h THEN q0 ELSE h
  IN
  [scheme   |-> url[1],
   netloc   |-> SubSeq(url, 2, n - 1),
   path     |-> SubSeq(url, n, q - 1),
   query    |-> SubSeq(url, q + 1, h - 1),
   fragment |-> SubSeq(url, h + 1, Len(url))]

\* pathlib.Path(path).name: the last segment that is neither empty nor "."
PathName(path) ==
  LET segs == Split(path, "/")
      real == {i \in DOMAIN segs : segs[i] \notin {<<>>, <<".">>}}
  IN
  IF real = {} THEN <<>> ELSE segs[CHOOSE i \in real : \A j \in real : j <= i]

derive_filename_from_url(url) ==
  LET name == PathName(urlparse(url).path)
      tail == IF name = <<>> THEN <<"download">> ELSE name
  IN
  sanitize_filename(IF EndsWith(Lower(tail), <<".pdf">>) THEN tail
                    ELSE tail \o <<".pdf">>)

\* PDF_REGEX without the optional (?:[?#].*)? group
PDF_REGEX_end_only(text) == EndsWith(Lower(text), <<".pdf">>)

\* PDF_REGEX.search(text): a ".pdf", in any case, followed by the end of the
\* text or by "?" or "#"
PDF_REGEX(text) ==
  \E i \in DOMAIN text :
    /\ Lower(text)[i] = ".pdf"
    /\ i = Len(text) \/ text[i + 1] \in {"?", "#"}

\* resp is [url, content_type]: the final URL and the Content-Type header,
\* <<>> when the header is absent
is_pdf_response(resp) ==
  LET content_type         == Lower(resp.content_type)
      has_pdf_content_type == Contains(content_type, <<"application/pdf">>)
      url_ends_with_pdf    == PDF_REGEX(resp.url)
  IN
  has_pdf_content_type \/ url_ends_with_pdf

\* urllib.parse.quote_plus
quote_plus(s) ==
  [i \in DOMAIN s |->
     CASE s[i] = "/" -> "%2F"
       [] s[i] = " " -> "+"
       [] OTHER      -> s[i]]

RECURSIVE parse_qs_from(_, _)
\* the loop of parse_qs over the fields of the query: a field without "=" or
\* with a blank value is dropped, a repeated name collects its values
parse_qs_from(fields, acc) ==
  IF fields = <<>> THEN acc
  ELSE
    LET f     == Head(fields)
        e     == First(f, {"="}, 1)
        name  == unquote(SubSeq(f, 1, e - 1))
        value == unquote(SubSeq(f, e + 1, Len(f)))
        at    == {i \in DOMAIN acc : acc[i].key = name}
    IN
    IF e > Len(f) \/ value = <<>> THEN parse_qs_from(Tail(fields), acc)
    ELSE IF at = {}
      THEN parse_qs_from(Tail(fields), Append(acc, [key |-> name, values |-> <<value>>]))
    ELSE parse_qs_from(Tail(fields),
                       [i \in DOMAIN acc |->
                          IF i \in at THEN [acc[i] EXCEPT !.values = Append(@, value)]
                          ELSE acc[i]])

\* urllib.parse.parse_qs: the dict, as the sequence of its items in
\* insertion order
parse_qs(query) ==
  parse_qs_from(IF query = <<>> THEN <<>> ELSE Split(query, "&"), <<>>)

\* query_params["output"] = ["pdf"]
SetItem(dict, key, values) ==
  IF \E i \in DOMAIN dict : dict[i].key = key
    THEN [i \in DOMAIN dict |->
            IF dict[i].key = key THEN [key |-> key, values |-> values] ELSE dict[i]]
    ELSE Append(dict, [key |-> key, values |-> values])

RECURSIVE urlencode(_)
\* urlencode of the dict built from value_list[0] of every parameter
urlencode(dict) ==
  IF dict = <<>> THEN <<>>
  ELSE quote_plus(Head(dict).key) \o <<"=">> \o quote_plus(Head(dict).values[1])
         \o (IF Tail(dict) = <<>> THEN <<>> ELSE <<"&">> \o urlencode(Tail(dict)))

\* urlunparse((scheme, netloc, path, "", query, ""))
urlunparse(scheme, netloc, path, query) ==
  <<scheme>> \o netloc \o path \o (IF query = <<>> THEN <<>> ELSE <<"?">> \o query)

\* GOOGLE_DRIVE_REGEX.match(path): group(1), None without a match
GOOGLE_DRIVE_REGEX(path) ==
  LET e == First(path, {"/"}, 6) IN
  IF /\ Len(path) > e
     /\ e > 6
     /\ SubSeq(Lower(path), 1, 5) = <<"/", "file", "/", "d", "/">>
     /\ Lower(path)[e + 1] = "view"
    THEN SubSeq(path, 6, e - 1)
    ELSE None

\* DOC_ID_REGEX.match(path): group(1), None without a match
DOC_ID_REGEX(path) ==
  LET e == First(path, {"/"}, 6) IN
  IF /\ e > 6
     /\ Len(path) >= 6
     /\ Lower(path)[1] = "/"
     /\ Lower(path)[2] \in {"document", "spreadsheets", "presentation"}
     /\ SubSeq(Lower(path), 3, 5) = <<"/", "d", "/">>
    THEN SubSeq(path, 6, e - 1)
    ELSE None

\* path_part.replace("/pubhtml", "/pub")
ReplacePubhtml(path) ==
  [i \in DOMAIN path |->
     IF i > 1 /\ path[i - 1] = "/" /\ path[i] = "pubhtml" THEN "pub" ELSE path[i]]

\* the rewrite of a viewer URL to its download / export URL, None when the
\* URL has none of the known shapes
google_direct_download_url(url) ==
  LET parsed_url      == urlparse(url)
      website_name    == parsed_url.netloc
      path_part       == parsed_url.path
      query_params    == parse_qs(parsed_url.query)
      is_google_drive == EndsWith(website_name, <<"drive.google.com">>)
      is_google_docs  == EndsWith(website_name, <<"docs.google.com">>)
      file_id         == GOOGLE_DRIVE_REGEX(path_part)
      ids             == {i \in DOMAIN query_params : query_params[i].key = <<"id">>}
      is_published_sheet ==
        /\ Contains(path_part, <<"/", "spreadsheets", "/">>)
        /\ Contains(path_part, <<"/", "d", "/", "e", "/">>)
        /\ Contains(path_part, <<"pubhtml">>)
      document_id     == DOC_ID_REGEX(path_part)
      uc(id)          == <<"https://", "drive.google.com", "/", "uc", "?",
                           "export", "=", "download", "&", "id", "=">> \o id
      export(kind, suffix) ==
        <<"https://", "docs.google.com", "/", kind, "/", "d", "/">>
          \o document_id \o suffix
  IN
  IF is_google_drive /\ file_id # None THEN uc(file_id)
  ELSE IF is_google_drive /\ EndsWith(path_part, <<"/", "open">>) /\ ids # {}
    THEN uc(query_params[CHOOSE i \in ids : TRUE].values[1])
  ELSE IF is_google_docs /\ is_published_sheet
    THEN urlunparse(parsed_url.scheme, parsed_url.netloc, ReplacePubhtml(path_part),
                    urlencode(SetItem(query_params, <<"output">>, <<<<"pdf">>>>)))
  ELSE IF is_google_docs /\ document_id # None
            /\ Contains(path_part, <<"/", "document", "/">>)
    THEN export("document", <<"/", "export", "?", "format", "=", "pdf">>)
  ELSE IF is_google_docs /\ document_id # None
            /\ Contains(path_part, <<"/", "spreadsheets", "/">>)
    THEN export("spreadsheets", <<"/", "export", "?", "format", "=", "pdf">>)
  ELSE IF is_google_docs /\ document_id # None
            /\ Contains(path_part, <<"/", "presentation", "/">>)
    THEN export("presentation", <<"/", "export", "/", "pdf">>)
  ELSE None

\* ------------------------------------------------------------- the web
U(h, s, e) == [host |-> h, stem |-> s, ext |-> e]

NoUrl == U("", "", "")

A   == U("site", "a", "pdf")
B   == U("site", "b", "pdf")
C   == U("site", "c", "pdf")
D   == U("site", "d", "pdf")
E   == U("site", "e", "pdf")
F   == U("site", "f", "pdf")
P   == U("web", "index", "")
Q   == U("web", "about", "")
W   == U("web", "wide", "")
R1  == U("web", "r", "pdf")
R2  == U("mirror", "r", "pdf")
G   == U("drive.google.com", "view", "")
UC  == U("drive.google.com", "uc", "")
UCC == U("drive.google.com", "uc_confirm", "")
GD  == U("docs.google.com", "edit", "")
EX  == U("docs.google.com", "export", "")
GF  == U("drive.google.com", "folders", "")
\* "http://[x": the text of a seed matched by URL_REGEX, not a valid URL
BAD == U("[x", "", "")

Urls == {A, B, C, D, E, F, P, Q, W, R1, R2, G, UC, UCC, GD, EX, GF, BAD}

\* the text of a URL
UrlText(u) ==
  CASE u = G   -> <<"https://", "drive.google.com", "/", "file", "/", "d", "/", "g",
                    "/", "view">>
    [] u = UC  -> <<"https://", "drive.google.com", "/", "uc", "?", "export", "=",
                    "download", "&", "id", "=", "g">>
    [] u = UCC -> <<"https://", "drive.google.com", "/", "uc", "?", "export", "=",
                    "download", "&", "confirm", "=", "t", "&", "id", "=", "g">>
    [] u = GD  -> <<"https://", "docs.google.com", "/", "document", "/", "d", "/",
                    "doc", "/", "edit">>
    [] u = EX  -> <<"https://", "docs.google.com", "/", "document", "/", "d", "/",
                    "doc", "/", "export", "?", "format", "=", "pdf">>
    [] u = GF  -> <<"https://", "drive.google.com", "/", "drive", "/", "folders",
                    "/", "f">>
    [] u = BAD -> <<"http://", "[x">>
    [] OTHER   -> <<"http://", u.host, "/", u.stem>>
                    \o (IF u.ext = "pdf" THEN <<".pdf">> ELSE <<>>)

\* the URL with the given text, None when the site has none
UrlOf(text) ==
  IF \E u \in Urls : UrlText(u) = text
    THEN CHOOSE u \in Urls : UrlText(u) = text
    ELSE None

\* urlparse raises ValueError("Invalid IPv6 URL") on it
Malformed(u) == u = BAD

\* outcome class of a GET of u: GF answers 403 (sign-in required) and
\* requests rejects BAD with InvalidURL
Status(u) == IF u \in {GF, BAD} THEN "err" ELSE "ok"

\* Content-Type of the response
ContentType(u) ==
  IF u \in {A, B, C, D, E, R1, R2, UCC, EX} THEN <<"application/pdf">>
  ELSE <<"text/html", ";", " ", "charset=utf-8">>

\* the response to a GET of u; no URL of the site redirects
Response(u) == [url |-> UrlText(u), content_type |-> ContentType(u)]

\* what follows filename= in the Content-Disposition header of the
\* response, None when absent
ContentDisposition(u) ==
  CASE u = UCC -> <<"g", ".pdf", "\"">>
    [] u = EX  -> <<"doc", ".pdf", "\"">>
    [] OTHER   -> None

\* links (annotations and text URLs) inside the PDF document served at u
DocLinks(u) ==
  CASE u = A   -> {B, C}
    [] u = B   -> {C, A}
    [] u = C   -> {D}
    [] u = D   -> {E}
    [] u = F   -> {G, D}
    [] u = UCC -> {D}
    [] u = G   -> {D}
    [] u = EX  -> {R2}
    [] OTHER   -> {}

\* <a href>, <embed src> and <iframe src> targets matching PDF_REGEX on the
\* HTML page served at u, in document order, duplicates removed
PagePdfHrefs(u) ==
  CASE u = P -> <<R1, R2>>
    [] OTHER -> <<>>

\* all http(s) <a href> targets of the HTML page served at u
PageAnchors(u) ==
  CASE u = P -> {R1, R2, Q}
    [] u = Q -> {P, GD, W}
    [] OTHER -> {}

\* links found in the printed snapshot of page u
SnapshotLinks(u) ==
  CASE u = P -> {R1, Q}
    [] OTHER -> {}

\* <title> of the page, "" when it has none
Title(u) == IF u = Q THEN <<"about">> ELSE <<>>

\* what the headless browser can do with page u: print it ("print"), only
\* take a screenshot that converts to a PDF ("screenshot"), only take a
\* screenshot that PIL cannot convert ("noconvert")
RenderOutcome(u) ==
  CASE u = Q -> "noconvert"
    [] u = W -> "screenshot"
    [] OTHER -> "print"

\* href of the "download anyway" link on the interstitial served at u
ConfirmHref(u) == IF u = UC THEN UCC ELSE NoUrl

\* file name the Drive viewer offers when its Download control is clicked,
\* None when no Download control is found
DriveDownload(u) == IF u = G THEN <<"g", ".pdf">> ELSE None

\* the PDF files given to the program and the links found in each
\* what gather_pdfs can return: the PDFs of an input directory, or the one
\* input file
Inputs == {<<"s1", "corrupt", "s2">>, <<"s3">>, <<"s4">>}

\* fitz.open fails on this one
Corrupt(s) == s = "corrupt"

SeedLinks(s) ==
  CASE s = "s1" -> <<A, C>>
    [] s = "s2" -> <<G, GF, P, C>>
    [] s = "s3" -> <<BAD, R1>>
    [] s = "s4" -> <<F>>
    [] OTHER    -> <<>>

\* ------------------------------------------------------------- helpers
\* failures the environment can inject into one HTTP download: a network
\* error, open() failing, write() failing, the connection dropping while the
\* body streams.  Browser calls can fail with "browser" and the link
\* extraction of a seed with "parse".
HttpFaults == {"net", "fs_open", "fs_write", "net_stream"}

Put(fs, name, content) == (name :> content) @@ fs

Content(u, kind) == [src |-> u, kind |-> kind]

\* what the helper functions give for each URL of the site: the
\* classification of its response, the file names chosen for it and its
\* rewrite.  Fixed at the start of a run (Site below).
VARIABLE site

\* is_pdf_response of the response of every URL of the site
is_actually_pdf == [u \in Urls |-> is_pdf_response(Response(u))]

\* the file name chosen for the response of every URL of the site
suggested_filename ==
  [u \in Urls |->
     IF filename_from_cd(ContentDisposition(u)) # None
       THEN filename_from_cd(ContentDisposition(u))
     ELSE derive_filename_from_url(Response(u).url)]

SuggestedFilename(u) == site.suggested_filename[u]

Fetched(path, fs, raised, wrote) ==
  [path |-> path, fs |-> fs, raised |-> raised, wrote |-> wrote]

\* a save step that never looks for an existing file
SaveBodyAlways(u, fs, skip_existing, fault, catchOS) ==
  LET fn == SuggestedFilename(u) IN
  IF fault = "fs_open" THEN Fetched(None, fs, ~catchOS, {})
  ELSE IF fault = "fs_write"
    THEN Fetched(None, Put(fs, fn, Content(u, "partial")), ~catchOS, {fn})
  ELSE IF fault = "net_stream"
    THEN Fetched(None, Put(fs, fn, Content(u, "partial")), FALSE, {fn})
  ELSE Fetched(fn, Put(fs, fn, Content(u, "pdf")), FALSE, {fn})

\* the save step shared by the fetchers: skip an existing file, else open
\* the target "wb" and stream the body into it.  A failure while streaming
\* leaves the opened file with the part of the body written so far.
SaveBody(u, fs, skip_existing, fault, catchOS) ==
  LET fn == SuggestedFilename(u) IN
  IF skip_existing /\ fn \in DOMAIN fs THEN Fetched(fn, fs, FALSE, {})
  ELSE IF fault = "fs_open" THEN Fetched(None, fs, ~catchOS, {})
  ELSE IF fault = "fs_write"
    THEN Fetched(None, Put(fs, fn, Content(u, "partial")), ~catchOS, {fn})
  ELSE IF fault = "net_stream"
    THEN Fetched(None, Put(fs, fn, Content(u, "partial")), FALSE, {fn})
  ELSE Fetched(fn, Put(fs, fn, Content(u, "pdf")), FALSE, {fn})

\* stream_download_pdf with only requests.RequestException caught
stream_download_pdf_uncaught(u, fs, skip_existing, fault) ==
  IF fault = "net" \/ Status(u) = "err" THEN Fetched(None, fs, FALSE, {})
  ELSE IF ~site.is_actually_pdf[u] THEN Fetched(None, fs, FALSE, {})
  ELSE SaveBody(u, fs, skip_existing, fault, FALSE)

stream_download_pdf(u, fs, skip_existing, fault) ==
  IF fault = "net" \/ Status(u) = "err" THEN Fetched(None, fs, FALSE, {})
  ELSE IF ~site.is_actually_pdf[u] THEN Fetched(None, fs, FALSE, {})
  ELSE SaveBody(u, fs, skip_existing, fault, TRUE)

\* the interstitial page handling of a Drive download: GET the uc URL, save
\* it when it is the PDF, else follow the confirm link and save that.  Only
\* requests.RequestException is caught.
google_drive_fetch_with_confirm(t, fs, skip_existing, fault) ==
  IF fault = "net" \/ Status(t) = "err" THEN Fetched(None, fs, FALSE, {})
  ELSE IF site.is_actually_pdf[t] THEN
    \* the first response is not streamed: its body is read inside get()
    IF fault = "net_stream" THEN Fetched(None, fs, FALSE, {})
    ELSE SaveBody(t, fs, skip_existing, fault, FALSE)
  ELSE IF ConfirmHref(t) = NoUrl THEN Fetched(None, fs, FALSE, {})
  ELSE IF Status(ConfirmHref(t)) = "err" \/ ~site.is_actually_pdf[ConfirmHref(t)]
    THEN Fetched(None, fs, FALSE, {})
  ELSE SaveBody(ConfirmHref(t), fs, skip_existing, fault, FALSE)

\* the URLs google_drive_fetch_with_confirm requests, in order
ConfirmRequests(t, fault) ==
  IF fault = "net" \/ Status(t) = "err" \/ site.is_actually_pdf[t]
       \/ ConfirmHref(t) = NoUrl
    THEN <<t>>
  ELSE <<t, ConfirmHref(t)>>

\* the URL that google_direct_download_url(url) names, None when it returns
\* None
transformed_urls ==
  [u \in Urls |->
     IF google_direct_download_url(UrlText(u)) = None THEN None
     ELSE UrlOf(google_direct_download_url(UrlText(u)))]

transformed_url(u) == site.transformed_urls[u]

\* is_google_drive or is_google_docs
CloudHosts ==
  {u \in Urls : \/ EndsWith(urlparse(UrlText(u)).netloc, <<"drive.google.com">>)
                \/ EndsWith(urlparse(UrlText(u)).netloc, <<"docs.google.com">>)}

IsCloudHost(u) == u \in site.CloudHosts

\* the name a browser download is saved under
DownloadName(download_name) ==
  LET suggested == sanitize_filename(IF download_name = <<>>
                                       THEN <<"download", ".pdf">>
                                       ELSE download_name)
  IN
  IF EndsWith(Lower(suggested), <<".pdf">>) THEN suggested
  ELSE suggested \o <<".pdf">>

\* the Drive viewer opened in a browser and its Download control clicked;
\* every exception is caught
outfile == [u \in Urls |-> DownloadName(DriveDownload(u))]

playwright_download_from_drive(u, fs, skip_existing, fault) ==
  IF fault = "browser" \/ DriveDownload(u) = None
    THEN Fetched(None, fs, FALSE, {})
  ELSE IF skip_existing /\ site.outfile[u] \in DOMAIN fs
    THEN Fetched(site.outfile[u], fs, FALSE, {})
  ELSE Fetched(site.outfile[u], Put(fs, site.outfile[u], Content(u, "pdf")),
               FALSE, {site.outfile[u]})

collect_pdf_links_from_page(u, fault) ==
  IF fault = "net" \/ Status(u) = "err" THEN <<>>
  ELSE IF site.is_actually_pdf[u] THEN <<u>>
  ELSE PagePdfHrefs(u)

build_filename(title, url) ==
  LET url_parts == urlparse(url)
      combined  == strip([i \in DOMAIN (url_parts.netloc \o url_parts.path) |->
                            IF (url_parts.netloc \o url_parts.path)[i] = "/" THEN "_"
                            ELSE (url_parts.netloc \o url_parts.path)[i]], {"_"})
      base_name == IF title # <<>> THEN sanitize_filename(title)
                   ELSE sanitize_filename(combined)
  IN
  IF EndsWith(Lower(base_name), <<".pdf">>) THEN base_name
  ELSE base_name \o <<".pdf">>

\* output_file.with_suffix(".png")
with_suffix_png(name) == [i \in DOMAIN name |-> IF i = Len(name) THEN ".png" ELSE name[i]]

\* the file the render of every page of the site is written to
output_file == [u \in Urls |-> build_filename(Title(u), UrlText(u))]

png_temp_file == [u \in Urls |-> with_suffix_png(output_file[u])]

Site ==
  [is_actually_pdf    |-> is_actually_pdf,
   suggested_filename |-> suggested_filename,
   transformed_urls   |-> transformed_urls,
   CloudHosts         |-> CloudHosts,
   outfile            |-> outfile,
   output_file        |-> output_file,
   png_temp_file      |-> png_temp_file]

render_html_to_pdf_playwright(u, fs, skip_existing, screenshot_fallback, fault) ==
  LET out == site.output_file[u]
      png == site.png_temp_file[u]
  IN
  IF fault = "browser" THEN Fetched(None, fs, FALSE, {})
  ELSE IF skip_existing /\ out \in DOMAIN fs THEN Fetched(out, fs, FALSE, {})
  ELSE IF RenderOutcome(u) = "print"
    THEN Fetched(out, Put(fs, out, Content(u, "render")), FALSE, {out})
  ELSE IF ~screenshot_fallback THEN Fetched(None, fs, FALSE, {})
  ELSE IF RenderOutcome(u) = "screenshot"
    THEN Fetched(out, Put(fs, out, Content(u, "image")), FALSE, {out, png})
  ELSE Fetched(None, Put(fs, png, Content(u, "png")), FALSE, {png})

\* fitz.open on a stored file succeeds
Opens(content) == content.kind \in {"pdf", "render", "image"}

\* extract_annotation_links | extract_text_links of a stored file
ExtractLinks(content) ==
  CASE content.kind = "pdf"    -> DocLinks(content.src)
    [] content.kind = "render" -> SnapshotLinks(content.src)
    [] OTHER                   -> {}

\* the anchors process_link reads from the page when no snapshot was made
AnchorLinks(u, fault) ==
  IF fault = "net" \/ Status(u) = "err" THEN {} ELSE PageAnchors(u)

\* ------------------------------------------------------------- state
VARIABLES
  args,          \* the parsed command line
  pdfs,          \* the input PDFs gather_pdfs found
  run,           \* 1 in the first run of the program, 2 in a repeated run
  files1,        \* the output directory as the first run left it
  written,       \* names of the files written during the current run
  mainpc,        \* where main / process_input_pdf stands
  seedIdx,       \* index in Seeds of the seed being processed
  links,         \* links of the current seed still to be handed to process_link
  visited_urls,  \* the visited set of the current seed
  stack,         \* the active process_link invocations, innermost last
  totals,        \* total_attempted, total_succeeded, total_rendered of the seed
  results,       \* what process_input_pdf returned, one entry per finished seed
  files,         \* the output directory: file name -> content
  log,           \* the requests and sleeps of the current seed, in order
  faults,        \* environment failures injected so far
  inp,           \* the argument of a helper function called on its own
  outp,          \* the helper called on inp and what it returned
  STATE_FILE,    \* pdf_state.json of the review backend: whether it exists, its entries
  SCRAPED,       \* names of the PDFs in the webscraped directory
  KB,            \* names of the PDFs in the knowledge_base directory
  openwebui,     \* names of the PDFs the uploader has added to the knowledge base
  req,           \* per serving thread: the request it serves and its local variables
  left           \* per serving thread: how many requests it may still take

\* the review backend
backend == <<STATE_FILE, SCRAPED, KB, openwebui, req, left>>

vars == <<args, pdfs, run, files1, written, mainpc, seedIdx, links, visited_urls, stack, totals, results,
          files, log, faults, inp, outp, site, backend>>

\* what no step of a crawl changes
cfg == <<args, pdfs, run, files1, inp, outp, site, backend>>

Zero == [attempted |-> 0, succeeded |-> 0, rendered |-> 0]

Counts(a, s, r) == [attempted |-> a, succeeded |-> s, rendered |-> r]

Add(x, y) == Counts(x.attempted + y.attempted, x.succeeded + y.succeeded,
                    x.rendered + y.rendered)

\* one log entry: a request of kind k for URL u and whether it produced a
\* file path, or a time.sleep(delay)
Ev(k, u, ok, owner, d) == [k |-> k, u |-> u, ok |-> ok, owner |-> owner, d |-> d]

Sleep == Ev("sleep", NoUrl, FALSE, NoUrl, 0)

\* a process_link invocation; browser: the headless browser of a render or
\* Drive download it has called is running
Frame(u, d) ==
  [url |-> u, depth |-> d, pc |-> "enter", n |-> Zero, todo |-> {},
   pdfs |-> <<>>, path |-> None, browser |-> FALSE]

Top == stack[Len(stack)]

\* log entry of a request made by the top invocation
Req(k, u, ok) == Ev(k, u, ok, Top.url, Top.depth)

\* a recursive call that passes current_depth on unchanged
ChildDepthSame(d) == d

\* current_depth + 1, the depth passed to a recursive call
ChildDepth(d) == d + 1

SetTop(f) == [stack EXCEPT ![Len(stack)] = f]

\* a fault is injected only while the budget lasts and only where it changes
\* the outcome of the call
MayInject(fault, with, without) ==
  fault = "none" \/ (faults < MaxFaults /\ with # without)

Spend(fault) == IF fault = "none" THEN faults ELSE faults + 1

\* ------------------------------------------------------------- backend
\* the threads that serve requests
Workers == {1, 2}

\* a thread that serves no request
Idle ==
  [op |-> "none", pc |-> "done", name |-> "", excluded |-> FALSE, state |-> {},
   pdf_files |-> {}, moved |-> {}, upload_errors |-> {}]

\* no state file
Absent == [exists |-> FALSE, items |-> {}]

\* the backend after its import: no state file, no scraped PDF
cleanup_on_startup ==
  /\ STATE_FILE = Absent
  /\ SCRAPED = {}
  /\ KB = {}
  /\ openwebui = {}
  /\ req = [t \in Workers |-> Idle]

\* no helper has been called
NotCalled == [fn |-> "none", val |-> None]

Init ==
  /\ args \in [max_depth : -1..MaxDepth, skip_existing : BOOLEAN,
               render_pages : BOOLEAN, max_from_page : {None, <<1>>, <<-1>>},
               screenshot_fallback : {TRUE}]
  \* negative numbers and the cap on the links of a page are taken with the
  \* other options at their defaults; the one page of this site that links
  \* PDFs is a seed link, so the cap is taken with the depths that reach it
  /\ (args.max_depth < 0 \/ args.max_from_page # None) =>
       (~args.skip_existing /\ ~args.render_pages)
  /\ args.max_from_page # None => args.max_depth <= 1
  /\ pdfs \in Inputs
  /\ run = 1
  /\ files1 = <<>>
  /\ written = {}
  /\ mainpc = "main_loop"
  /\ seedIdx = 1
  /\ links = <<>>
  /\ visited_urls = {}
  /\ stack = <<>>
  /\ totals = Zero
  /\ results = <<>>
  /\ files = <<>>
  /\ log = <<>>
  /\ faults = 0
  /\ inp = [kind |-> "none"]
  /\ outp = NotCalled
  /\ site = Site
  /\ cleanup_on_startup
  /\ left = [t \in Workers |-> 0]

\* ------------------------------------------------------------- control
\* the top invocation returns the counters c to its caller, which adds them
\* to its own and sleeps
Return(c, evs) ==
  /\ stack' = IF Len(stack) = 1 THEN <<>>
              ELSE [i \in 1..(Len(stack) - 1) |->
                      IF i = Len(stack) - 1
                        THEN [stack[i] EXCEPT !.n = Add(@, c)]
                        ELSE stack[i]]
  /\ totals' = IF Len(stack) = 1 THEN Add(totals, c) ELSE totals
  /\ log' = log \o evs \o <<Sleep>>
  /\ UNCHANGED <<mainpc, seedIdx, links, results>>

\* the innermost invocation below the top one that is inside the try block
\* of its PDF-link loop, 0 when there is none
Handler ==
  LET hs == {i \in 1..(Len(stack) - 1) : stack[i].pc = "pdf_children"} IN
  IF hs = {} THEN 0 ELSE CHOOSE i \in hs : \A j \in hs : j <= i

\* an exception leaves the top invocation: it unwinds to the nearest
\* enclosing "except Exception" of a PDF-link loop, which abandons the loop;
\* with none, it leaves process_input_pdf and main
Raise(evs) ==
  /\ stack' = IF Handler = 0 THEN <<>>
              ELSE [i \in 1..Handler |->
                      IF i = Handler THEN [stack[i] EXCEPT !.pc = "pdf_return"]
                      ELSE stack[i]]
  /\ mainpc' = IF Handler = 0 THEN "crashed" ELSE mainpc
  /\ log' = log \o evs
  /\ UNCHANGED <<seedIdx, links, totals, results>>

\* the top invocation goes on
Step(f, evs) ==
  /\ stack' = SetTop(f)
  /\ log' = log \o evs
  /\ UNCHANGED <<mainpc, seedIdx, links, totals, results>>

Running == mainpc = "seed_loop" /\ stack # <<>>

\* ------------------------------------------------------------- main
\* fitz.open raises on the seed: process_input_pdf logs a warning and returns
\* (0, 0, 0, 0); this variant lets the exception leave process_input_pdf
CannotOpenRaises ==
  /\ mainpc' = "crashed"
  /\ UNCHANGED <<seedIdx, results, links, visited_urls, totals, log>>

\* fitz.open raises on the seed: a warning, and (0, 0, 0, 0) is returned to
\* main, which goes on with the next input
CannotOpen ==
  /\ results' = Append(results, [links |-> 0, n |-> Zero])
  /\ seedIdx' = seedIdx + 1
  /\ UNCHANGED <<mainpc, links, visited_urls, totals, log>>

\* a session that goes on with the visited set of the previous seed
StartSessionSharedVisited ==
  /\ mainpc' = "seed_loop"
  /\ links' = SeedLinks(pdfs[seedIdx])
  /\ totals' = Zero
  /\ log' = <<>>
  /\ UNCHANGED <<seedIdx, results, visited_urls>>

\* the seed has links: zeroed counters and a new, empty visited set
StartSession ==
  /\ mainpc' = "seed_loop"
  /\ links' = SeedLinks(pdfs[seedIdx])
  /\ visited_urls' = {}
  /\ totals' = Zero
  /\ log' = <<>>
  /\ UNCHANGED <<seedIdx, results>>

\* main's loop over the input PDFs with the head of process_input_pdf: open
\* the seed, extract its links, return early when it cannot be opened or
\* has no links, else start a session with a fresh visited set
OpenSeed ==
  /\ mainpc = "main_loop"
  /\ seedIdx <= Len(pdfs)
  /\ \E fault \in {"none", "parse"} :
       /\ fault = "parse" => (faults < MaxFaults /\ ~Corrupt(pdfs[seedIdx]))
       /\ faults' = Spend(fault)
       /\ IF Corrupt(pdfs[seedIdx]) THEN CannotOpen
          ELSE IF fault = "parse"
            \* extract_*_links raises: try/finally closes the document and
            \* the exception leaves process_input_pdf
            THEN /\ mainpc' = "crashed"
                 /\ UNCHANGED <<seedIdx, results, links, visited_urls, totals, log>>
          ELSE IF SeedLinks(pdfs[seedIdx]) = <<>>
            THEN /\ results' = Append(results, [links |-> 0, n |-> Zero])
                 /\ seedIdx' = seedIdx + 1
                 /\ UNCHANGED <<mainpc, links, visited_urls, totals, log>>
          ELSE StartSession
  /\ UNCHANGED <<cfg, stack, files, written>>

\* the loop of process_input_pdf: hand the next link to process_link
CallProcessLink ==
  /\ mainpc = "seed_loop"
  /\ stack = <<>>
  /\ links # <<>>
  /\ stack' = <<Frame(Head(links), 0)>>
  /\ links' = Tail(links)
  /\ UNCHANGED <<cfg, mainpc, seedIdx, visited_urls, totals, results, files, written,
                 log, faults>>

\* process_input_pdf returns (len(links), totals) and main adds them up
FinishSeed ==
  /\ mainpc = "seed_loop"
  /\ stack = <<>>
  /\ links = <<>>
  /\ results' = Append(results, [links |-> Len(SeedLinks(pdfs[seedIdx])),
                                 n |-> totals])
  /\ seedIdx' = seedIdx + 1
  /\ mainpc' = "main_loop"
  /\ UNCHANGED <<cfg, links, visited_urls, stack, totals, files, written, log, faults>>

\* main prints its summary
Summary ==
  /\ mainpc = "main_loop"
  /\ seedIdx > Len(pdfs)
  /\ mainpc' = "done"
  /\ UNCHANGED <<cfg, seedIdx, links, visited_urls, stack, totals, results,
                 files, written, log, faults>>

\* ------------------------------------------------------------- process_link
\* process_link starting with the host test instead of the direct fetch
EnterNoDirect ==
  /\ Running
  /\ Top.pc = "enter"
  /\ IF Top.url \in visited_urls \/ Top.depth > args.max_depth
       THEN /\ Return(Zero, <<>>)
            /\ UNCHANGED visited_urls
       ELSE /\ visited_urls' = visited_urls \cup {Top.url}
            /\ Step([Top EXCEPT !.pc = "classify"], <<>>)
  /\ UNCHANGED <<cfg, files, written, faults>>

\* process_link that also turns away a URL at current_depth = max_depth
EnterDepthInclusive ==
  /\ Running
  /\ Top.pc = "enter"
  /\ IF Top.url \in visited_urls \/ Top.depth >= args.max_depth
       THEN /\ Return(Zero, <<>>)
            /\ UNCHANGED visited_urls
       ELSE /\ visited_urls' = visited_urls \cup {Top.url}
            /\ Step([Top EXCEPT !.pc = "direct"], <<>>)
  /\ UNCHANGED <<cfg, files, written, faults>>

\* process_link that marks its URL before the two early returns
EnterMarksFirst ==
  /\ Running
  /\ Top.pc = "enter"
  /\ visited_urls' = visited_urls \cup {Top.url}
  /\ IF Top.url \in visited_urls \/ Top.depth > args.max_depth
       THEN Return(Zero, <<>>)
       ELSE Step([Top EXCEPT !.pc = "direct"], <<>>)
  /\ UNCHANGED <<cfg, files, written, faults>>

\* process_link without visited_urls.add(url)
EnterNoMark ==
  /\ Running
  /\ Top.pc = "enter"
  /\ IF Top.url \in visited_urls \/ Top.depth > args.max_depth
       THEN Return(Zero, <<>>)
       ELSE Step([Top EXCEPT !.pc = "direct"], <<>>)
  /\ UNCHANGED <<cfg, visited_urls, files, written, faults>>

\* the two early returns and the marking of the URL
Enter ==
  /\ Running
  /\ Top.pc = "enter"
  /\ IF Top.url \in visited_urls \/ Top.depth > args.max_depth
       THEN /\ Return(Zero, <<>>)
            /\ UNCHANGED visited_urls
       ELSE /\ visited_urls' = visited_urls \cup {Top.url}
            /\ Step([Top EXCEPT !.pc = "direct"], <<>>)
  /\ UNCHANGED <<cfg, files, written, faults>>

\* the direct fetch and, on success below max_depth, the link extraction
\* from the file it returned
DirectFetch ==
  /\ Running
  /\ Top.pc = "direct"
  /\ \E fault \in HttpFaults \cup {"none"} :
       LET r  == stream_download_pdf(Top.url, files, args.skip_existing, fault)
           r0 == stream_download_pdf(Top.url, files, args.skip_existing, "none")
           ev == <<Req("direct", Top.url, r.path # None)>>
       IN
       /\ MayInject(fault, r, r0)
       /\ faults' = Spend(fault)
       /\ files' = r.fs
         /\ written' = written \cup r.wrote
       /\ IF r.raised THEN Raise(ev)
          ELSE IF r.path = None THEN Step([Top EXCEPT !.pc = "classify"], ev)
          ELSE IF Top.depth < args.max_depth /\ Opens(r.fs[r.path])
            THEN Step([Top EXCEPT !.pc = "pdf_children", !.path = r.path,
                                  !.todo = ExtractLinks(r.fs[r.path])], ev)
          ELSE Step([Top EXCEPT !.pc = "pdf_return", !.path = r.path], ev)
  /\ UNCHANGED <<cfg, visited_urls>>

\* one iteration of the loop over the links of the downloaded PDF
PdfChild ==
  /\ Running
  /\ Top.pc = "pdf_children"
  /\ \E sub \in Top.todo :
       stack' = Append(SetTop([Top EXCEPT !.todo = @ \ {sub}]),
                       Frame(sub, ChildDepth(Top.depth)))
  /\ UNCHANGED <<cfg, mainpc, seedIdx, links, visited_urls, totals, results,
                 files, written, log, faults>>

\* the return of a downloaded PDF that does not count the PDF itself
PdfReturnNoSelf ==
  /\ Running
  /\ \/ Top.pc = "pdf_children" /\ Top.todo = {}
     \/ Top.pc = "pdf_return"
  /\ Return(Top.n, <<>>)
  /\ UNCHANGED <<cfg, visited_urls, files, written, faults>>

\* return (1 + attempted, 1 + succeeded, rendered)
PdfReturn ==
  /\ Running
  /\ \/ Top.pc = "pdf_children" /\ Top.todo = {}
     \/ Top.pc = "pdf_return"
  /\ Return(Add(Top.n, Counts(1, 1, 0)), <<>>)
  /\ UNCHANGED <<cfg, visited_urls, files, written, faults>>

\* urlparse and the host test
Classify ==
  /\ Running
  /\ Top.pc = "classify"
  /\ IF Malformed(Top.url) THEN Raise(<<>>)
     ELSE Step([Top EXCEPT !.pc = IF IsCloudHost(Top.url) THEN "adapter" ELSE "scrape"],
               <<>>)
  /\ UNCHANGED <<cfg, visited_urls, files, written, faults>>

\* the rewrite of the viewer URL and the fetch of the rewritten URL
AdapterRewrite ==
  /\ Running
  /\ Top.pc = "adapter"
  /\ LET t == transformed_url(Top.url) IN
     IF t = None
       THEN /\ Step([Top EXCEPT !.pc = "browser"], <<>>)
            /\ UNCHANGED <<files, written, faults>>
       ELSE \E fault \in HttpFaults \cup {"none"} :
         LET r  == stream_download_pdf(t, files, args.skip_existing, fault)
             r0 == stream_download_pdf(t, files, args.skip_existing, "none")
             ev == <<Req("rewrite", t, r.path # None)>>
             n1 == Add(Top.n, Counts(1, 0, 0))
         IN
         /\ MayInject(fault, r, r0)
         /\ faults' = Spend(fault)
         /\ files' = r.fs
         /\ written' = written \cup r.wrote
         /\ IF r.raised THEN Raise(ev)
            ELSE IF r.path # None
              THEN Return(Counts(n1.attempted, n1.succeeded + 1, 0), ev \o <<Sleep>>)
            ELSE Step([Top EXCEPT !.pc = "confirm", !.n = n1], ev)
  /\ UNCHANGED <<cfg, visited_urls>>

\* google_drive_fetch_with_confirm on the rewritten URL
AdapterConfirm ==
  /\ Running
  /\ Top.pc = "confirm"
  /\ \E fault \in HttpFaults \cup {"none"} :
       LET t  == transformed_url(Top.url)
           r  == google_drive_fetch_with_confirm(t, files, args.skip_existing, fault)
           r0 == google_drive_fetch_with_confirm(t, files, args.skip_existing, "none")
           rq == ConfirmRequests(t, fault)
           ev == [i \in 1..Len(rq) |->
                    Req("confirm", rq[i], i = Len(rq) /\ r.path # None)]
       IN
       /\ MayInject(fault, r, r0)
       /\ faults' = Spend(fault)
       /\ files' = r.fs
         /\ written' = written \cup r.wrote
       /\ IF r.raised THEN Raise(ev)
          ELSE IF r.path # None
            THEN Return(Counts(Top.n.attempted + 1, Top.n.succeeded + 1, 0),
                        ev \o <<Sleep>>)
          ELSE Step([Top EXCEPT !.pc = "browser"], ev)
  /\ UNCHANGED <<cfg, visited_urls>>

\* sync_playwright() and chromium.launch() at the head of
\* playwright_download_from_drive and render_html_to_pdf_playwright: the
\* browser of the call runs
LaunchBrowser ==
  /\ Running
  /\ ~Top.browser
  /\ \/ Top.pc = "browser"
     \/ Top.pc = "page_pdfs" /\ Top.pdfs = <<>> /\ args.render_pages
  /\ Step([Top EXCEPT !.browser = TRUE], <<>>)
  /\ UNCHANGED <<cfg, visited_urls, files, written, faults>>

\* a cloud-doc branch that goes on to the page scrape when the browser
\* download fails too
AdapterBrowserFallsThrough ==
  /\ Running
  /\ Top.pc = "browser"
  /\ Top.browser
  /\ \E fault \in {"none", "browser"} :
       LET r  == playwright_download_from_drive(Top.url, files, args.skip_existing, fault)
           r0 == playwright_download_from_drive(Top.url, files, args.skip_existing, "none")
           ev == <<Req("browser", Top.url, r.path # None)>>
       IN
       /\ MayInject(fault, r, r0)
       /\ faults' = Spend(fault)
       /\ files' = r.fs
       /\ written' = written \cup r.wrote
       /\ IF r.path # None
            THEN Return(Counts(Top.n.attempted + 1, Top.n.succeeded + 1, 0), ev)
          ELSE Step([Top EXCEPT !.pc = "scrape", !.browser = FALSE], ev)
  /\ UNCHANGED <<cfg, visited_urls>>

\* playwright_download_from_drive on the viewer URL once its browser runs:
\* every path out of it closes the browser or leaves the with block that
\* stops Playwright; then the return of the cloud-doc branch
AdapterBrowser ==
  /\ Running
  /\ Top.pc = "browser"
  /\ Top.browser
  /\ \E fault \in {"none", "browser"} :
       LET r  == playwright_download_from_drive(Top.url, files, args.skip_existing, fault)
           r0 == playwright_download_from_drive(Top.url, files, args.skip_existing, "none")
           ev == <<Req("browser", Top.url, r.path # None)>>
       IN
       /\ MayInject(fault, r, r0)
       /\ faults' = Spend(fault)
       /\ files' = r.fs
         /\ written' = written \cup r.wrote
       /\ IF r.path # None
            THEN Return(Counts(Top.n.attempted + 1, Top.n.succeeded + 1, 0), ev)
          ELSE Return(Counts(IF Top.n.attempted # 0 THEN Top.n.attempted ELSE 1,
                             Top.n.succeeded, 0), ev)
  /\ UNCHANGED <<cfg, visited_urls>>

\* where the slice seq[:n] of a sequence of length len ends: a negative n
\* counts from the end
SliceEnd(len, n) ==
  IF n >= len THEN len
  ELSE IF n >= 0 THEN n
  ELSE IF len + n >= 0 THEN len + n
  ELSE 0

\* collect_pdf_links_from_page and the max_from_page cap
Scrape ==
  /\ Running
  /\ Top.pc = "scrape"
  /\ \E fault \in {"none", "net"} :
       LET found  == collect_pdf_links_from_page(Top.url, fault)
           found0 == collect_pdf_links_from_page(Top.url, "none")
           capped == IF args.max_from_page = None THEN found
                     ELSE SubSeq(found, 1, SliceEnd(Len(found), args.max_from_page[1]))
       IN
       /\ MayInject(fault, found, found0)
       /\ faults' = Spend(fault)
       /\ Step([Top EXCEPT !.pc = "page_pdfs", !.pdfs = capped],
               <<Req("scrape", Top.url, FALSE)>>)
  /\ UNCHANGED <<cfg, visited_urls, files, written>>

\* one iteration of the loop that downloads the PDFs linked on the page
PagePdf ==
  /\ Running
  /\ Top.pc = "page_pdfs"
  /\ Top.pdfs # <<>>
  /\ \E fault \in HttpFaults \cup {"none"} :
       LET u  == Head(Top.pdfs)
           r  == stream_download_pdf(u, files, args.skip_existing, fault)
           r0 == stream_download_pdf(u, files, args.skip_existing, "none")
           ev == <<Req("page_pdf", u, r.path # None), Sleep>>
       IN
       /\ MayInject(fault, r, r0)
       /\ faults' = Spend(fault)
       /\ files' = r.fs
         /\ written' = written \cup r.wrote
       /\ IF r.raised THEN Raise(ev)
          ELSE Step([Top EXCEPT !.pdfs = Tail(@),
                       !.n = Add(@, Counts(1, IF r.path # None THEN 1 ELSE 0, 0))],
                    ev)
  /\ UNCHANGED <<cfg, visited_urls>>

\* a render whose failure paths return without closing the browser
RenderLeavesBrowser ==
  /\ Running
  /\ Top.pc = "page_pdfs"
  /\ Top.pdfs = <<>>
  /\ args.render_pages => Top.browser
  /\ IF ~args.render_pages
       THEN /\ Step([Top EXCEPT !.pc = "page_links"], <<>>)
            /\ UNCHANGED <<files, written, faults>>
       ELSE \E fault \in {"none", "browser"} :
         LET r  == render_html_to_pdf_playwright(Top.url, files, args.skip_existing,
                                                 args.screenshot_fallback, fault)
             r0 == render_html_to_pdf_playwright(Top.url, files, args.skip_existing,
                                                 args.screenshot_fallback, "none")
         IN
         /\ MayInject(fault, r, r0)
         /\ faults' = Spend(fault)
         /\ files' = r.fs
         /\ written' = written \cup r.wrote
         /\ Step([Top EXCEPT !.pc = "page_links", !.path = r.path, !.browser = (r.path = None),
                     !.n = Add(@, Counts(0, 0, IF r.path # None THEN 1 ELSE 0))],
                 <<Req("render", Top.url, r.path # None)>>)
  /\ UNCHANGED <<cfg, visited_urls>>

\* render_html_to_pdf_playwright on the page, when rendering is enabled,
\* once its browser runs: every path out of it closes the browser or leaves
\* the with block that stops Playwright
Render ==
  /\ Running
  /\ Top.pc = "page_pdfs"
  /\ Top.pdfs = <<>>
  /\ args.render_pages => Top.browser
  /\ IF ~args.render_pages
       THEN /\ Step([Top EXCEPT !.pc = "page_links"], <<>>)
            /\ UNCHANGED <<files, written, faults>>
       ELSE \E fault \in {"none", "browser"} :
         LET r  == render_html_to_pdf_playwright(Top.url, files, args.skip_existing,
                                                 args.screenshot_fallback, fault)
             r0 == render_html_to_pdf_playwright(Top.url, files, args.skip_existing,
                                                 args.screenshot_fallback, "none")
         IN
         /\ MayInject(fault, r, r0)
         /\ faults' = Spend(fault)
         /\ files' = r.fs
         /\ written' = written \cup r.wrote
         /\ Step([Top EXCEPT !.pc = "page_links", !.path = r.path, !.browser = FALSE,
                     !.n = Add(@, Counts(0, 0, IF r.path # None THEN 1 ELSE 0))],
                 <<Req("render", Top.url, r.path # None)>>)
  /\ UNCHANGED <<cfg, visited_urls>>

\* a page at max_depth that returns its counters as they are
PageLinksRawCount ==
  /\ Running
  /\ Top.pc = "page_links"
  /\ IF Top.depth >= args.max_depth
       THEN /\ Return(Top.n, <<>>)
            /\ UNCHANGED faults
     ELSE IF Top.path # None /\ Top.path \in DOMAIN files
       THEN /\ Step([Top EXCEPT !.pc = "page_children",
                       !.todo = IF Opens(files[Top.path])
                                  THEN ExtractLinks(files[Top.path]) ELSE {}],
                    <<>>)
            /\ UNCHANGED faults
     ELSE \E fault \in {"none", "net"} :
            /\ MayInject(fault, AnchorLinks(Top.url, fault), AnchorLinks(Top.url, "none"))
            /\ faults' = Spend(fault)
            /\ Step([Top EXCEPT !.pc = "page_children",
                        !.todo = AnchorLinks(Top.url, fault)],
                    <<Req("anchors", Top.url, FALSE)>>)
  /\ UNCHANGED <<cfg, visited_urls, files, written>>

\* below max_depth: the links of the page, from the snapshot when there is
\* one and from a new GET of the page otherwise; at max_depth: the return
PageLinks ==
  /\ Running
  /\ Top.pc = "page_links"
  /\ IF Top.depth >= args.max_depth
       THEN /\ Return(Counts(IF Top.n.attempted # 0 THEN Top.n.attempted ELSE 1,
                             Top.n.succeeded, Top.n.rendered), <<>>)
            /\ UNCHANGED faults
     ELSE IF Top.path # None /\ Top.path \in DOMAIN files
       THEN /\ Step([Top EXCEPT !.pc = "page_children",
                       !.todo = IF Opens(files[Top.path])
                                  THEN ExtractLinks(files[Top.path]) ELSE {}],
                    <<>>)
            /\ UNCHANGED faults
     ELSE \E fault \in {"none", "net"} :
            /\ MayInject(fault, AnchorLinks(Top.url, fault), AnchorLinks(Top.url, "none"))
            /\ faults' = Spend(fault)
            /\ Step([Top EXCEPT !.pc = "page_children",
                        !.todo = AnchorLinks(Top.url, fault)],
                    <<Req("anchors", Top.url, FALSE)>>)
  /\ UNCHANGED <<cfg, visited_urls, files, written>>

\* the loop over the links of the page without its test of visited_urls
PageChildUntested ==
  /\ Running
  /\ Top.pc = "page_children"
  /\ \E sub \in Top.todo :
       stack' = Append(SetTop([Top EXCEPT !.todo = @ \ {sub}]),
                       Frame(sub, ChildDepth(Top.depth)))
  /\ UNCHANGED <<cfg, mainpc, seedIdx, links, visited_urls, totals, results,
                 files, written, log, faults>>

\* one iteration of the loop over the links of the page
PageChild ==
  /\ Running
  /\ Top.pc = "page_children"
  /\ \E sub \in Top.todo :
       stack' = IF sub \in visited_urls
                  THEN SetTop([Top EXCEPT !.todo = @ \ {sub}])
                  ELSE Append(SetTop([Top EXCEPT !.todo = @ \ {sub}]),
                              Frame(sub, ChildDepth(Top.depth)))
  /\ UNCHANGED <<cfg, mainpc, seedIdx, links, visited_urls, totals, results,
                 files, written, log, faults>>

\* return (attempted or 1, succeeded, rendered)
PageReturn ==
  /\ Running
  /\ Top.pc = "page_children"
  /\ Top.todo = {}
  /\ Return(Counts(IF Top.n.attempted # 0 THEN Top.n.attempted ELSE 1,
                   Top.n.succeeded, Top.n.rendered), <<>>)
  /\ UNCHANGED <<cfg, visited_urls, files, written, faults>>

Next ==
  \/ OpenSeed
  \/ CallProcessLink
  \/ FinishSeed
  \/ Summary
  \/ Enter
  \/ DirectFetch
  \/ PdfChild
  \/ PdfReturn
  \/ Classify
  \/ AdapterRewrite
  \/ AdapterConfirm
  \/ LaunchBrowser
  \/ AdapterBrowser
  \/ Scrape
  \/ PagePdf
  \/ Render
  \/ PageLinks
  \/ PageChild
  \/ PageReturn

Spec == Init /\ [][Next]_vars

\* main is one sequential process and every call it makes returns: a step
\* that can be taken is taken
SpecLive == Spec /\ WF_vars(Next)

\* the program is run again on the same input, the same command line and
\* the output directory the first run left
Rerun ==
  /\ mainpc = "done"
  /\ run = 1
  /\ run' = 2
  /\ files1' = files
  /\ written' = {}
  /\ mainpc' = "main_loop"
  /\ seedIdx' = 1
  /\ links' = <<>>
  /\ visited_urls' = {}
  /\ stack' = <<>>
  /\ totals' = Zero
  /\ results' = <<>>
  /\ log' = <<>>
  /\ UNCHANGED <<args, pdfs, files, faults, inp, outp, site, backend>>

NextRerun ==
  \/ Next
  \/ Rerun

SpecRerun == Init /\ [][NextRerun]_vars

\* ------------------------------------------------------------- helpers alone
\* longest tail of a URL after the "/" that follows its host, in tokens
MaxUrl == 4
\* most path segments after the document id of a viewer URL
MaxTail == 2
\* most fields in the query of a viewer URL
MaxParams == 2

\* all sequences over S of length at most n
SeqUpTo(S, n) == UNION {[1..k -> S] : k \in 0..n}

\* raw file names of at most n tokens: what a Content-Disposition header or
\* a browser download may suggest
Names(n) ==
  SeqUpTo({"a", ".", ".pdf", "/", "\\", ":", " ", "<LF>", "<SOH>", "<DEL>", "%2F", "\""}, n)

\* final URLs of responses, at most n tokens after the host, and their
\* Content-Type headers
ResponseUrls(n) ==
  {<<"http://", "h", "/">> \o t :
     t \in SeqUpTo({"/", "r", ".pdf", ".PDF", ".html", "?", "#"}, n)}

ContentTypes ==
  {<<>>, <<"text/html">>, <<"application/pdf">>, <<"Application/PDF">>,
   <<"application/pdf", ";", " ", "charset=utf-8">>, <<"application/x-pdf">>}

RECURSIVE JoinPath(_)
\* "/" + "/".join(segments)
JoinPath(segments) ==
  IF segments = <<>> THEN <<>>
  ELSE <<"/">> \o Head(segments) \o JoinPath(Tail(segments))

RECURSIVE JoinQuery(_)
\* "&".join(fields)
JoinQuery(fields) ==
  IF fields = <<>> THEN <<>>
  ELSE Head(fields) \o (IF Tail(fields) = <<>> THEN <<>>
                        ELSE <<"&">> \o JoinQuery(Tail(fields)))

\* ids of Drive files and Docs documents
Ids == {<<"ABC123">>, <<"XYZ">>}

\* links to Drive and Docs viewers and links that resemble them: a host, the
\* folders in front of the id, an id or none, at most t further segments, a
\* query of at most p fields
LinkUrls(t, p) ==
  {<<"https://", host>> \o JoinPath(folders \o id \o [i \in DOMAIN tail |-> <<tail[i]>>])
     \o (IF fields = <<>> THEN <<>> ELSE <<"?">> \o JoinQuery(fields)) :
     host \in {"drive.google.com", "docs.google.com", "example.com"},
     folders \in {<<<<"file">>, <<"d">>>>, <<<<"open">>>>,
                  <<<<"document">>, <<"d">>>>, <<<<"spreadsheets">>, <<"d">>>>,
                  <<<<"presentation">>, <<"d">>>>,
                  <<<<"spreadsheets">>, <<"d">>, <<"e">>>>},
     id \in {<<>>} \cup {<<i>> : i \in Ids},
     tail \in SeqUpTo({"view", "edit", "pubhtml", "document"}, t),
     fields \in SeqUpTo({<<"id", "=", "ABC123">>, <<"gid", "=", "0">>,
                         <<"gid", "=", "1">>, <<"single", "=">>}, p)}

\* the crawler does not run
NoCrawl ==
  /\ args = [max_depth |-> 0, skip_existing |-> TRUE, render_pages |-> TRUE,
             max_from_page |-> None, screenshot_fallback |-> TRUE]
  /\ pdfs = <<>>
  /\ run = 1
  /\ files1 = <<>>
  /\ written = {}
  /\ mainpc = "done"
  /\ seedIdx = 1
  /\ links = <<>>
  /\ visited_urls = {}
  /\ stack = <<>>
  /\ totals = Zero
  /\ results = <<>>
  /\ files = <<>>
  /\ log = <<>>
  /\ faults = 0
  /\ outp = NotCalled
  /\ site = Site

\* a helper function is about to be called on an argument
InitText ==
  /\ NoCrawl
  /\ cleanup_on_startup
  /\ left = [t \in Workers |-> 0]
  /\ \/ inp \in [kind : {"name"}, name : Names(MaxName)]
     \/ inp \in [kind : {"response"}, url : ResponseUrls(MaxUrl), content_type : ContentTypes]
     \/ inp \in [kind : {"link"}, url : LinkUrls(MaxTail, MaxParams)]

\* the helper fn returns val
Returns(fn, val) ==
  /\ outp = NotCalled
  /\ outp' = [fn |-> fn, val |-> val]
  /\ UNCHANGED <<args, pdfs, run, files1, written, mainpc, seedIdx, links,
                 visited_urls, stack, totals, results, files, log, faults, inp, site,
                 backend>>

\* filename_from_cd on a header that suggests inp.name
CallFilenameFromCd ==
  /\ inp.kind = "name"
  /\ Returns("filename_from_cd", filename_from_cd(inp.name))

\* the name playwright_download_from_drive saves a download under
CallDownloadName ==
  /\ inp.kind = "name"
  /\ Returns("DownloadName", DownloadName(inp.name))

\* derive_filename_from_url on the final URL of a response
CallDeriveFilename ==
  /\ inp.kind = "response"
  /\ Returns("derive_filename_from_url", derive_filename_from_url(inp.url))

CallIsPdfResponse ==
  /\ inp.kind = "response"
  /\ Returns("is_pdf_response", is_pdf_response(inp))

CallGoogleDirectDownloadUrl ==
  /\ inp.kind = "link"
  /\ Returns("google_direct_download_url", google_direct_download_url(inp.url))

NextText ==
  \/ CallFilenameFromCd
  \/ CallDownloadName
  \/ CallDeriveFilename
  \/ CallIsPdfResponse
  \/ CallGoogleDirectDownloadUrl

SpecText == InitText /\ [][NextText]_vars

\* ------------------------------------------------------------- review backend
\* requests a thread serves in a run of the sequential backend
MaxRequests == 4

\* names of the PDFs a crawl can leave in the webscraped directory
Pdfs == {"a.pdf", "b.pdf"}

\* what no request of the backend changes
crawl == <<args, pdfs, run, files1, written, mainpc, seedIdx, links, visited_urls,
           stack, totals, results, files, log, faults, inp, outp, site>>

\* load_state(): the entries of the state file, [] when there is none
load_state == IF STATE_FILE.exists THEN STATE_FILE.items ELSE {}

\* thread t takes a request: r holds its arguments and what its first
\* statements read
Begin(t, r) ==
  /\ left[t] > 0
  /\ req[t].pc = "done"
  /\ req' = [req EXCEPT ![t] = r]
  /\ left' = [left EXCEPT ![t] = @ - 1]
  /\ UNCHANGED crawl

\* thread t goes on to pc with its local variables as in r
Goes(t, r, pc) ==
  /\ req' = [req EXCEPT ![t] = [r EXCEPT !.pc = pc]]
  /\ UNCHANGED <<left, crawl>>

\* toggle_exclusion(name, item): state = load_state()
ToggleLoad ==
  \E t \in Workers, name \in Pdfs, excluded \in BOOLEAN :
    /\ Begin(t, [Idle EXCEPT !.op = "toggle_exclusion", !.pc = "save", !.name = name,
                             !.excluded = excluded, !.state = load_state])
    /\ UNCHANGED <<STATE_FILE, SCRAPED, KB, openwebui>>

\* toggle_exclusion: the entry of name is set or appended, then save_state
ToggleSave ==
  \E t \in Workers :
    LET r     == req[t]
        found == {pdf \in r.state : pdf.name = r.name}
        item  == [name |-> r.name, excluded |-> r.excluded]
    IN
    /\ r.op = "toggle_exclusion"
    /\ r.pc = "save"
    /\ STATE_FILE' = [exists |-> TRUE,
                      items  |-> IF found = {} THEN r.state \cup {item}
                                 ELSE (r.state \ {CHOOSE pdf \in found : TRUE}) \cup {item}]
    /\ Goes(t, r, "done")
    /\ UNCHANGED <<SCRAPED, KB, openwebui>>

\* list_pdfs: the glob of the scraped directory; with no PDF the state file
\* is removed and [] returned
ListGlob ==
  \E t \in Workers :
    /\ Begin(t, [Idle EXCEPT !.op = "list_pdfs", !.pdf_files = SCRAPED,
                             !.pc = IF SCRAPED = {} THEN "done" ELSE "load"])
    /\ STATE_FILE' = IF SCRAPED = {} THEN Absent ELSE STATE_FILE
    /\ UNCHANGED <<SCRAPED, KB, openwebui>>

\* list_pdfs: saved_state = load_state()
ListLoad ==
  \E t \in Workers :
    /\ req[t].op = "list_pdfs"
    /\ req[t].pc = "load"
    /\ Goes(t, [req[t] EXCEPT !.state = load_state], "save")
    /\ UNCHANGED <<STATE_FILE, SCRAPED, KB, openwebui>>

\* a list_pdfs that stores every PDF as not excluded
ListSaveForgets ==
  \E t \in Workers :
    LET r == req[t] IN
    /\ r.op = "list_pdfs"
    /\ r.pc = "save"
    /\ IF r.pdf_files \subseteq SCRAPED
         THEN /\ STATE_FILE' = [exists |-> TRUE,
                                items  |-> {[name |-> n, excluded |-> FALSE] : n \in r.pdf_files}]
              /\ Goes(t, r, "done")
         ELSE /\ UNCHANGED STATE_FILE
              /\ Goes(t, r, "raised")
    /\ UNCHANGED <<SCRAPED, KB, openwebui>>

\* list_pdfs: the loop over the PDFs found (pdf.stat() raises for a file that
\* is gone), then save_state(new_state)
ListSave ==
  \E t \in Workers :
    LET r == req[t]
        old_exclusions(n) == \E item \in r.state : item.name = n /\ item.excluded
    IN
    /\ r.op = "list_pdfs"
    /\ r.pc = "save"
    /\ IF r.pdf_files \subseteq SCRAPED
         THEN /\ STATE_FILE' = [exists |-> TRUE,
                                items  |-> {[name |-> n, excluded |-> old_exclusions(n)] :
                                              n \in r.pdf_files}]
              /\ Goes(t, r, "done")
         ELSE /\ UNCHANGED STATE_FILE
              /\ Goes(t, r, "raised")
    /\ UNCHANGED <<SCRAPED, KB, openwebui>>

\* finalize_upload: state = load_state()
FinalizeLoad ==
  \E t \in Workers :
    /\ Begin(t, [Idle EXCEPT !.op = "finalize_upload", !.pc = "copy", !.state = load_state])
    /\ UNCHANGED <<STATE_FILE, SCRAPED, KB, openwebui>>

\* finalize_upload: every entry that is not excluded and whose file exists
\* is copied to the knowledge base and handed to the uploader, which may fail
FinalizeCopy ==
  \E t \in Workers :
    LET r       == req[t]
        include == {pdf.name : pdf \in {pdf \in r.state : ~pdf.excluded}}
        moved   == include \cap SCRAPED
    IN
    /\ r.op = "finalize_upload"
    /\ r.pc = "copy"
    /\ KB' = KB \cup moved
    /\ \E uploaded \in SUBSET moved :
         /\ openwebui' = openwebui \cup uploaded
         /\ Goes(t, [r EXCEPT !.moved = moved, !.upload_errors = moved \ uploaded], "cleanup")
    /\ UNCHANGED <<STATE_FILE, SCRAPED>>

\* a clean-up that removes only the PDFs that were copied
FinalizeCleanupMoved ==
  \E t \in Workers :
    /\ req[t].op = "finalize_upload"
    /\ req[t].pc = "cleanup"
    /\ SCRAPED' = SCRAPED \ req[t].moved
    /\ STATE_FILE' = Absent
    /\ Goes(t, req[t], "done")
    /\ UNCHANGED <<KB, openwebui>>

\* finalize_upload: every PDF of the scraped directory and the state file
\* are removed
FinalizeCleanup ==
  \E t \in Workers :
    /\ req[t].op = "finalize_upload"
    /\ req[t].pc = "cleanup"
    /\ SCRAPED' = {}
    /\ STATE_FILE' = Absent
    /\ Goes(t, req[t], "done")
    /\ UNCHANGED <<KB, openwebui>>

\* upload_and_crawl: the data of the previous run is cleared
UploadClear ==
  \E t \in Workers :
    /\ Begin(t, [Idle EXCEPT !.op = "upload_and_crawl", !.pc = "crawl"])
    /\ STATE_FILE' = Absent
    /\ SCRAPED' = {}
    /\ KB' = {}
    /\ UNCHANGED openwebui

\* upload_and_crawl: the crawler writes the PDFs it finds to the scraped
\* directory
UploadCrawl ==
  \E t \in Workers, found \in SUBSET Pdfs :
    /\ req[t].op = "upload_and_crawl"
    /\ req[t].pc = "crawl"
    /\ SCRAPED' = SCRAPED \cup found
    /\ Goes(t, req[t], "done")
    /\ UNCHANGED <<STATE_FILE, KB, openwebui>>

NextApp ==
  \/ ToggleLoad
  \/ ToggleSave
  \/ ListGlob
  \/ ListLoad
  \/ ListSave
  \/ FinalizeLoad
  \/ FinalizeCopy
  \/ FinalizeCleanup
  \/ UploadClear
  \/ UploadCrawl

\* the backend serves its requests one after the other
InitApp ==
  /\ NoCrawl
  /\ inp = [kind |-> "none"]
  /\ cleanup_on_startup
  /\ left = [t \in Workers |-> IF t = 1 THEN MaxRequests ELSE 0]

\* two requests arrive together at a backend that has listed its PDFs
InitPool ==
  /\ NoCrawl
  /\ inp = [kind |-> "none"]
  /\ SCRAPED \in SUBSET Pdfs \ {{}}
  /\ \E excluded \in [SCRAPED -> BOOLEAN] :
       STATE_FILE = [exists |-> TRUE,
                     items  |-> {[name |-> n, excluded |-> excluded[n]] : n \in SCRAPED}]
  /\ KB = {}
  /\ openwebui = {}
  /\ req = [t \in Workers |-> Idle]
  /\ left = [t \in Workers |-> 1]

SpecApp == InitApp /\ [][NextApp]_vars

\* the same requests served by two threads of the pool at once
SpecPool == InitPool /\ [][NextApp]_vars

\* ------------------------------------------------------------- properties
Range(q) == {q[i] : i \in DOMAIN q}

\* process_input_pdf has handed every link of the seed to process_link
SessionOver == mainpc = "seed_loop" /\ stack = <<>> /\ links = <<>>

InSession == mainpc = "seed_loop"

AdapterKinds == {"rewrite", "confirm", "browser"}

PageKinds == {"scrape", "page_pdf", "render", "anchors"}

\* the URL a request is made for: the viewer URL for the adapter's requests
Subject(e) == IF e.k \in {"rewrite", "confirm"} THEN e.owner ELSE e.u

\* every link that fetching u can reveal
Children(u) ==
  LET t == transformed_url(u) IN
  DocLinks(u) \cup PageAnchors(u) \cup SnapshotLinks(u) \cup Range(PagePdfHrefs(u))
    \cup (IF t = None THEN {} ELSE DocLinks(t) \cup DocLinks(ConfirmHref(t)))

RECURSIVE WithinHops(_, _)
\* the URLs at most k hops away from the URLs in S
WithinHops(S, k) ==
  IF k = 0 THEN S
  ELSE IF k < 0 THEN {}
  ELSE WithinHops(S \cup UNION {Children(u) : u \in S}, k - 1)

SeedUrls == Range(SeedLinks(pdfs[seedIdx]))

\* C1: within one session every URL is fetched at most once, by the direct
\* fetch of process_link or by a per-page PDF download, however many pages
\* or PDFs link to it.
C1_FetchedAtMostOnce ==
  \A u \in Urls :
    Cardinality({i \in DOMAIN log :
                   log[i].k \in {"direct", "page_pdf"} /\ log[i].u = u}) <= 1

\* C2 as stated: no URL more than max_depth hops away from the seed links is
\* requested by any stage, the per-page PDF downloads included.
C2_NothingBeyondDepth ==
  InSession =>
    LET near == WithinHops(SeedUrls, args.max_depth) IN
    \A i \in DOMAIN log : log[i].k # "sleep" => Subject(log[i]) \in near

\* C2 amended: the requests process_link makes for its own URL (direct
\* fetch, adapter, scrape, render, anchors) are made at current_depth <=
\* max_depth for URLs at most max_depth hops away; the PDFs linked on a page
\* are downloaded by the page's invocation, so they are at most
\* max_depth + 1 hops away.
C2_DepthBound ==
  InSession =>
    LET near  == WithinHops(SeedUrls, args.max_depth)
        near1 == WithinHops(near, 1)
    IN
    /\ visited_urls \subseteq near
    /\ \A i \in DOMAIN log :
         log[i].k # "sleep" =>
           /\ log[i].d <= args.max_depth
           /\ IF log[i].k = "page_pdf"
                THEN log[i].u \in near1
                ELSE Subject(log[i]) \in near

\* a URL exactly max_depth hops away was fetched while a URL one hop
\* further exists
C2_Witness ==
  /\ InSession
  /\ args.max_depth = 1
  /\ \E i \in DOMAIN log : log[i].k = "direct" /\ log[i].d = 1
  /\ SessionOver
  /\ Urls \ WithinHops(SeedUrls, 1) # {}
  /\ WithinHops(SeedUrls, 2) # WithinHops(SeedUrls, 1)

\* C3: no exception raised while a URL or a seed is processed leaves the run.
C3_NoExceptionEscapes == mainpc # "crashed"

\* C4: for every URL process_link processes, an adapter, scrape, per-page
\* download, render or anchor request is made only after the direct fetch of
\* that URL failed, never for a URL whose direct fetch succeeded, and page
\* processing never precedes the adapter.
C4_StrategyOrder ==
  LET failed   == {j \in DOMAIN log : log[j].k = "direct" /\ ~log[j].ok}
      obtained == {log[j].u : j \in {j \in DOMAIN log : log[j].k = "direct" /\ log[j].ok}}
      adapter  == {j \in DOMAIN log : log[j].k \in AdapterKinds}
  IN
  \A i \in DOMAIN log :
    /\ log[i].k \in AdapterKinds \cup PageKinds =>
         /\ \E j \in failed : j < i /\ log[j].u = log[i].owner
         /\ log[i].owner \notin obtained
    /\ log[i].k \in PageKinds =>
         \A j \in adapter : j > i => log[j].owner # log[i].owner

\* in one session a cloud-doc URL went through the adapter, a page was
\* scraped and rendered, and a direct fetch succeeded
C4_Witness ==
  /\ \E i \in DOMAIN log : log[i].k = "confirm"
  /\ \E i \in DOMAIN log : log[i].k = "render"
  /\ \E i \in DOMAIN log : log[i].k = "direct" /\ log[i].ok

\* C5: the links inside a PDF acquired through the adapter below max_depth
\* are processed, as they are after a direct fetch.
C5_AdapterRecursion ==
  SessionOver =>
    \A i \in DOMAIN log :
      (log[i].k \in AdapterKinds /\ log[i].ok /\ log[i].d < args.max_depth) =>
        DocLinks(log[i].u) \subseteq visited_urls

\* C6 as stated: a URL whose direct fetch and whose adapter both failed is
\* then scraped as a generic page.
C6_FallsThroughToPage ==
  SessionOver =>
    \A i \in DOMAIN log :
      (log[i].k = "browser" /\ ~log[i].ok) =>
        \E j \in (i + 1)..Len(log) :
          log[j].k = "scrape" /\ log[j].owner = log[i].owner

\* C6 amended: generic-page processing is for URLs on other hosts only; a
\* cloud-doc URL is never scraped or rendered, and the browser download is
\* the last request made for it, whether it succeeds or fails.
C6_CloudUrlNeverPage ==
  \A i \in DOMAIN log :
    /\ log[i].k \in PageKinds => ~IsCloudHost(log[i].owner)
    /\ log[i].k = "browser" =>
         \A j \in (i + 1)..Len(log) : log[j].owner # log[i].owner

\* the session ended after the whole adapter chain failed on a URL
C6_Witness ==
  /\ SessionOver
  /\ \E i \in DOMAIN log : log[i].k = "browser" /\ ~log[i].ok /\ log[i].u = GF

\* C7 as stated: the attempt count of a session is the number of distinct
\* URLs processed in it.
C7_AttemptsAreDistinctUrls ==
  SessionOver => totals.attempted = Cardinality(visited_urls)

\* every request of the session was a successful direct fetch
AllDirect ==
  \A i \in DOMAIN log : log[i].k # "sleep" => (log[i].k = "direct" /\ log[i].ok)

\* C7 amended: the attempt count equals the number of distinct URLs
\* processed when every one of them was obtained by the direct fetch.
C7_AttemptsWhenAllDirect ==
  (SessionOver /\ AllDirect) => totals.attempted = Cardinality(visited_urls)

\* a session of direct fetches only, over a diamond: more references than URLs
C7_Witness ==
  /\ SessionOver
  /\ AllDirect
  /\ Cardinality(visited_urls) >= 3

\* C8: a second run with skip-existing and the same responses leaves the
\* same set of files and writes no file that the first run left.
C8_Idempotent ==
  (run = 2 /\ mainpc = "done" /\ faults = 0 /\ args.skip_existing) =>
    /\ DOMAIN files = DOMAIN files1
    /\ written \cap DOMAIN files1 = {}

\* C9: two distinct URLs that were fetched as PDFs under the same derived
\* file name are both stored in the output directory.
C9_BothStored ==
  \A i, j \in DOMAIN log :
    ( /\ log[i].k \in {"direct", "page_pdf"} /\ log[i].ok
      /\ log[j].k \in {"direct", "page_pdf"} /\ log[j].ok
      /\ log[i].u # log[j].u
      /\ SuggestedFilename(log[i].u) = SuggestedFilename(log[j].u) ) =>
    /\ \E n \in DOMAIN files : files[n] = Content(log[i].u, "pdf")
    /\ \E n \in DOMAIN files : files[n] = Content(log[j].u, "pdf")

\* the pc process_link goes to when the fetch made at pc returns None
AfterFailedFetch(pc) ==
  CASE pc = "direct"    -> "classify"
    [] pc = "adapter"   -> "confirm"
    [] pc = "page_pdfs" -> "page_pdfs"

\* C10: stream_download_pdf raises in no case, and when it returns None the
\* invocation that called it goes on to its next strategy.
C10_FetchNeverRaises ==
  /\ [](\A u \in Urls : \A fault \in HttpFaults \cup {"none"} :
          ~stream_download_pdf(u, files, args.skip_existing, fault).raised)
  /\ [][ ( /\ Running
           /\ Top.pc \in {"direct", "adapter", "page_pdfs"}
           /\ Len(log') > Len(log)
           /\ log'[Len(log) + 1].k \in {"direct", "rewrite", "page_pdf"}
           /\ ~log'[Len(log) + 1].ok )
         => ( /\ mainpc' = mainpc
              /\ Len(stack') = Len(stack)
              /\ stack'[Len(stack')].pc = AfterFailedFetch(Top.pc) ) ]_vars

\* the direct fetch of a PDF failed on an injected failure and the
\* invocation stands at the host test
C10_Witness ==
  /\ Running
  /\ Top.pc = "classify"
  /\ Top.url = A
  /\ faults = 1
  /\ log[Len(log)].k = "direct"
  /\ ~log[Len(log)].ok

\* what process_input_pdf returns for a seed it did not crawl
ZeroResult == [links |-> 0, n |-> Zero]

\* main is about to call process_input_pdf on a seed fitz.open rejects
CorruptNext == mainpc = "main_loop" /\ seedIdx <= Len(pdfs) /\ Corrupt(pdfs[seedIdx])

\* C11: a seed that cannot be opened is reported as zero links and zero
\* attempts, with no request and no file written, and main goes on to the
\* next seed; in the run over two valid seeds and a corrupt one, without
\* other failures, the summary is reached with both valid seeds fully
\* processed.
C11_CorruptSeedSkipped ==
  /\ [](mainpc = "done" =>
          /\ Len(results) = Len(pdfs)
          /\ \A i \in DOMAIN pdfs :
               IF Corrupt(pdfs[i]) THEN results[i] = ZeroResult
               ELSE results[i].links = Len(SeedLinks(pdfs[i])))
  /\ []((faults = 0 /\ \E i \in DOMAIN pdfs : Corrupt(pdfs[i])) => mainpc # "crashed")
  /\ [][ CorruptNext =>
           ( /\ results' = Append(results, ZeroResult)
             /\ log' = log
             /\ files' = files
             /\ mainpc' = "main_loop"
             /\ seedIdx' = seedIdx + 1 ) ]_vars

\* the run over a valid, a corrupt and a valid seed printed its summary and
\* both valid seeds downloaded something
C11_Witness ==
  /\ mainpc = "done"
  /\ Len(pdfs) = 3
  /\ Corrupt(pdfs[2])
  /\ results[2] = ZeroResult
  /\ results[1].n.succeeded > 0
  /\ results[3].n.succeeded > 0

\* C12: whatever the link graph and whichever links fail, every run ends by
\* printing its summary.
C12_RunPrintsSummary == <>(mainpc = "done")

\* C13: no screenshot file written by render_html_to_pdf_playwright is
\* left in the output directory once it has returned.
C13_NoStrandedScreenshot ==
  \A name \in DOMAIN files : files[name].kind # "png"

\* the requests that fetch a document
FetchKinds == {"direct", "rewrite", "confirm", "page_pdf"}

\* C14: every direct, rewritten, confirm or per-page fetch is followed by a
\* sleep before the next request of the session.
C14_DelayAfterEveryFetch ==
  \A i \in 1..(Len(log) - 1) :
    log[i].k \in FetchKinds => log[i + 1].k = "sleep"

\* number of requests of the given kinds that produced a file in this session
OkCount(kinds) == Cardinality({i \in DOMAIN log : log[i].k \in kinds /\ log[i].ok})

\* C15: a session starts, with no invocation of the previous seed active,
\* from an empty visited set and zeroed counters; every URL in the visited
\* set was marked by a direct fetch of this session, and the counters of a
\* seed count no more than the files and renders of its own session.
C15_SeedsIndependent ==
  /\ [](InSession =>
          /\ \A u \in visited_urls :
               \/ \E i \in DOMAIN log : log[i].k = "direct" /\ log[i].u = u
               \/ stack # <<>> /\ Top.url = u /\ Top.pc = "direct"
          /\ totals.succeeded <= OkCount(FetchKinds \cup {"browser"})
          /\ totals.rendered <= OkCount({"render"}))
  /\ []((mainpc = "main_loop" /\ results # <<>>) =>
          /\ results[Len(results)].n.succeeded <= OkCount(FetchKinds \cup {"browser"})
          /\ results[Len(results)].n.rendered <= OkCount({"render"}))
  /\ [][ (mainpc = "main_loop" /\ mainpc' = "seed_loop") =>
           (stack = <<>> /\ visited_urls' = {} /\ totals' = Zero) ]_vars

\* the third input links c.pdf, which the first input's session had
\* visited, and c.pdf is fetched again in the third input's session
C15_Witness ==
  /\ InSession
  /\ seedIdx = 3
  /\ C \in Range(SeedLinks(pdfs[1])) \cap Range(SeedLinks(pdfs[3]))
  /\ results[1].n.succeeded > 0
  /\ \E i \in DOMAIN log : log[i].k = "direct" /\ log[i].u = C /\ log[i].ok

\* C16: for a PDF response whose file name exists in the directory,
\* stream_download_pdf with skip_existing returns the existing path and
\* leaves the directory as it is, and without skip_existing writes the body
\* to that path; no step that calls it with skip_existing changes a file
\* that exists.
C16_SkipExisting ==
  /\ [](\A u \in Urls :
          (Status(u) = "ok" /\ site.is_actually_pdf[u]
             /\ SuggestedFilename(u) \in DOMAIN files) =>
            LET fn == SuggestedFilename(u)
                w  == stream_download_pdf(u, files, FALSE, "none")
            IN
            /\ \A fault \in HttpFaults \cup {"none"} :
                 LET s == stream_download_pdf(u, files, TRUE, fault) IN
                 /\ s.fs = files
                 /\ s.wrote = {}
                 /\ fault # "net" => s.path = fn
            /\ w.path = fn
            /\ w.fs[fn] = Content(u, "pdf")
            /\ fn \in w.wrote)
  /\ [][ ( /\ Running
           /\ args.skip_existing
           /\ \/ Top.pc \in {"direct", "adapter"}
              \/ Top.pc = "page_pdfs" /\ Top.pdfs # <<>> )
         => \A name \in DOMAIN files :
              name \in DOMAIN files' /\ files'[name] = files[name] ]_vars

\* with skip_existing, the second PDF of a page was fetched under the file
\* name of the first and the file still holds the first
C16_Witness ==
  /\ args.skip_existing
  /\ SuggestedFilename(R1) = SuggestedFilename(R2)
  /\ \E i \in DOMAIN log : log[i].k = "page_pdf" /\ log[i].u = R2 /\ log[i].ok
  /\ SuggestedFilename(R2) \in DOMAIN files
  /\ files[SuggestedFilename(R2)] = Content(R1, "pdf")


\* the URL google_direct_download_url was called on, parsed, and the
\* segments of its path (the first is empty: the path starts with "/")
Link == urlparse(inp.url)
Segs == Split(Link.path, "/")
Fields(query) == IF query = <<>> THEN {} ELSE Range(Split(query, "&"))

\* https://drive.google.com/file/d/<id>/view
DriveView ==
  /\ Link.netloc = <<"drive.google.com">>
  /\ Len(Segs) >= 5
  /\ Segs[2] = <<"file">> /\ Segs[3] = <<"d">> /\ Segs[4] \in Ids
  /\ Segs[5] = <<"view">>

\* the values of the id fields of the query that are not blank
OpenIds == {SubSeq(f, 3, Len(f)) : f \in {g \in Fields(Link.query) :
                                           Len(g) >= 3 /\ g[1] = "id" /\ g[2] = "="}}

\* https://drive.google.com/open?id=<id>
DriveOpen ==
  /\ Link.netloc = <<"drive.google.com">>
  /\ Link.path = <<"/", "open">>
  /\ Cardinality(OpenIds) = 1

\* https://docs.google.com/spreadsheets/d/e/<id>/pubhtml
PublishedSheet ==
  /\ Link.netloc = <<"docs.google.com">>
  /\ Len(Segs) = 6
  /\ Segs[2] = <<"spreadsheets">> /\ Segs[3] = <<"d">> /\ Segs[4] = <<"e">>
  /\ Segs[5] \in Ids /\ Segs[6] = <<"pubhtml">>

\* https://docs.google.com/<kind>/d/<id>/...
DocsEditor ==
  /\ Link.netloc = <<"docs.google.com">>
  /\ Len(Segs) >= 4
  /\ Segs[2] \in {<<"document">>, <<"spreadsheets">>, <<"presentation">>}
  /\ Segs[3] = <<"d">> /\ Segs[4] \in Ids

UcUrl(id) ==
  <<"https://", "drive.google.com", "/", "uc", "?", "export", "=", "download", "&", "id", "=">> \o id

ExportUrl(kind, id) ==
  <<"https://", "docs.google.com", "/", kind, "/", "d", "/">> \o id
    \o (IF kind = "presentation" THEN <<"/", "export", "/", "pdf">>
        ELSE <<"/", "export", "?", "format", "=", "pdf">>)

\* C17: google_direct_download_url maps every Drive URL /file/d/<id>/view and
\* every Drive URL /open?id=<id> to the uc?export=download URL of <id>, and
\* every Docs, Sheets or Slides URL /<kind>/d/<id>/... to the export-as-PDF
\* URL of the same kind and the same id.
C17_RewriteDriveAndDocs ==
  outp.fn = "google_direct_download_url" =>
    /\ DriveView => outp.val = UcUrl(Segs[4])
    /\ DriveOpen => outp.val = UcUrl(CHOOSE id \in OpenIds : TRUE)
    /\ DocsEditor => outp.val = ExportUrl(Segs[2][1], Segs[4])

\* C18: a published Sheets URL /spreadsheets/d/e/<id>/pubhtml with any query
\* is rewritten to the same host and path with pubhtml replaced by pub, and a
\* query that keeps every field of the original with its value and adds
\* output=pdf.
C18_PublishedSheetKeepsQuery ==
  (outp.fn = "google_direct_download_url" /\ PublishedSheet) =>
    /\ outp.val # None
    /\ LET r == urlparse(outp.val) IN
       /\ r.scheme = Link.scheme
       /\ r.netloc = Link.netloc
       /\ r.path = SubSeq(Link.path, 1, Len(Link.path) - 1) \o <<"pub">>
       /\ Fields(Link.query) \subseteq Fields(r.query)
       /\ <<"output", "=", "pdf">> \in Fields(r.query)

\* the header names application/pdf, in any case
PdfContentType(content_type) ==
  \E i \in DOMAIN content_type : content_type[i] \in {"application/pdf", "Application/PDF"}

\* the URL, or the URL cut in front of a "?" or a "#", ends in .pdf
PdfUrl(url) ==
  \E k \in {Len(url)} \cup {i - 1 : i \in {j \in DOMAIN url : url[j] \in {"?", "#"}}} :
    k >= 1 /\ url[k] \in {".pdf", ".PDF"}

\* C19: is_pdf_response classifies a response as a PDF if and only if its
\* Content-Type names application/pdf, in any case, or its final URL ends in
\* .pdf, optionally followed by a query or a fragment; either alone suffices.
C19_IsPdfResponse ==
  outp.fn = "is_pdf_response" =>
    (outp.val <=> (PdfContentType(inp.content_type) \/ PdfUrl(inp.url)))

\* a URL ending report.pdf?token=1 under a text/html content type is a PDF
C19_Witness ==
  /\ outp = [fn |-> "is_pdf_response", val |-> TRUE]
  /\ inp.content_type = <<"text/html">>
  /\ inp.url = <<"http://", "h", "/", "r", ".pdf", "?", "r">>

NameSources == {"filename_from_cd", "derive_filename_from_url", "DownloadName"}

\* out_dir / name is a file directly inside out_dir
InsideOutDir(name) ==
  /\ \A i \in DOMAIN name : name[i] \notin {"/", "\\"}
  /\ name \notin {<<>>, <<".">>, <<".", ".">>}

\* nothing is left of the suggestion once decoded and stripped
Unusable ==
  \/ inp.kind = "name" /\ strip(unquote(inp.name), Whitespace) = <<>>
  \/ inp.kind = "response" /\ PathName(urlparse(inp.url).path) = <<>>

\* C20: every name obtained from a Content-Disposition header, a URL tail or
\* a browser download is non-empty, holds no "/", "\", ":" or control
\* character, and joined to the output directory designates a file directly
\* inside it; an empty or unusable suggestion gives a default ending in .pdf.
C20_SafeFilename ==
  (outp.fn \in NameSources /\ outp.val # None) =>
    /\ outp.val # <<>>
    /\ \A i \in DOMAIN outp.val :
         outp.val[i] \notin {"/", "\\", ":", "<SOH>", "<LF>", "<DEL>"}
    /\ InsideOutDir(outp.val)
    /\ Unusable => EndsWith(outp.val, <<".pdf">>)


\* the requests of kind k made by the invocation for URL u
Requests(k, u) == {i \in DOMAIN log : log[i].k = k /\ log[i].owner = u}

\* the invocations that stand at current_depth = max_depth
AtMaxDepth == {i \in DOMAIN stack : stack[i].depth = args.max_depth}

\* C21: a process_link invocation at current_depth = max_depth on an
\* unvisited URL goes on to the direct fetch of that URL and, when it fails,
\* to the adapter or to the scrape and render of the page; it makes no
\* recursive call.
C21_OwnFetchAtMaxDepth ==
  /\ [](\A i \in AtMaxDepth :
          /\ i = Len(stack)
          /\ stack[i].pc \notin {"pdf_children", "page_children"}
          /\ stack[i].pc \notin {"enter", "direct"} =>
               \E j \in Requests("direct", stack[i].url) : log[j].d = args.max_depth)
  /\ [](SessionOver =>
          \A j \in DOMAIN log :
            (log[j].k = "direct" /\ ~log[j].ok /\ log[j].d = args.max_depth
               /\ ~Malformed(log[j].u)) =>
              IF IsCloudHost(log[j].u)
                THEN \E k \in AdapterKinds : Requests(k, log[j].u) # {}
                ELSE /\ Requests("scrape", log[j].u) # {}
                     /\ args.render_pages => Requests("render", log[j].u) # {})
  /\ [][(Running /\ Top.pc = "enter" /\ Top.depth = args.max_depth
           /\ Top.url \notin visited_urls) =>
          (/\ Len(stack') = Len(stack)
           /\ stack'[Len(stack)].pc = "direct"
           /\ Top.url \in visited_urls')]_vars

\* a page was scraped at current_depth = max_depth >= 1 and the session
\* ended with a link of that page never processed
C21_Witness ==
  /\ SessionOver
  /\ args.max_depth >= 1
  /\ \E j \in DOMAIN log :
       /\ log[j].k = "scrape"
       /\ log[j].d = args.max_depth
       /\ PageAnchors(log[j].u) \ visited_urls # {}


\* the innermost invocation is about to take one of the two early returns
NoOp ==
  /\ Running
  /\ Top.pc = "enter"
  /\ Top.url \in visited_urls \/ Top.depth > args.max_depth

\* C22: a process_link invocation whose URL is already visited, or whose
\* current_depth exceeds max_depth, returns (0, 0, 0) at once: its caller's
\* counters are unchanged, nothing is requested, no file is written and the
\* visited set is unchanged (the caller then sleeps).
C22_NoOpReturn ==
  [][NoOp =>
       /\ stack' = SubSeq(stack, 1, Len(stack) - 1)
       /\ totals' = totals
       /\ log' = Append(log, Sleep)
       /\ files' = files
       /\ written' = written
       /\ visited_urls' = visited_urls
       /\ mainpc' = mainpc]_vars

\* with max_depth < 0 every link of the seed was turned away for its depth:
\* the session is over with nothing requested and nothing marked visited
C22_Witness ==
  /\ SessionOver
  /\ args.max_depth < 0
  /\ Len(log) = Len(SeedLinks(pdfs[seedIdx]))
  /\ visited_urls = {}
  /\ totals = Zero


\* C23: process_link tests and inserts its URL before its first request for
\* it, and the visited set only grows during a session: every request was
\* made by an invocation whose URL is in the set, every invocation past its
\* entry has its URL in the set, no URL is handed to the direct fetch twice,
\* and the step that tests and inserts requests nothing.
C23_VisitedBeforeFetch ==
  /\ [](InSession =>
          /\ \A i \in DOMAIN log : log[i].k # "sleep" => log[i].owner \in visited_urls
          /\ \A i \in DOMAIN stack : stack[i].pc # "enter" => stack[i].url \in visited_urls
          /\ \A u \in Urls : Cardinality(Requests("direct", u)) <= 1)
  /\ [][mainpc = "seed_loop" => visited_urls \subseteq visited_urls']_vars
  /\ [][(Running /\ Top.pc = "enter") => log' \in {log, Append(log, Sleep)}]_vars

\* a recursive call meets a URL that was inserted in another branch of the
\* recursion
C23_Witness ==
  /\ Running
  /\ Len(stack) >= 2
  /\ Top.pc = "enter"
  /\ Top.url \in visited_urls
  /\ \A i \in 1..(Len(stack) - 1) : stack[i].url # Top.url


\* the adapter requests of kind k made for the viewer URL of log entry i
\* before it
Earlier(k, i) == {j \in 1..(i - 1) : log[j].k = k /\ log[j].owner = log[i].owner}

\* C24: for a cloud-doc URL the adapter fetches the rewritten URL, then the
\* confirm page, then downloads the viewer URL in a browser; the browser is
\* reached only when there is no rewrite or the rewritten and the confirm
\* fetch both failed, a stage's success is the last adapter request for the
\* URL, and a stage that fails hands over to the next stage or ends the
\* chain with a return to the caller: it never raises out of process_link.
C24_AdapterChain ==
  /\ [](\A i \in DOMAIN log :
          /\ log[i].k \in AdapterKinds =>
               /\ Earlier("browser", i) = {}
               /\ \A k \in AdapterKinds : \A j \in Earlier(k, i) : ~log[j].ok
          /\ log[i].k = "rewrite" => Earlier("confirm", i) = {}
          /\ log[i].k = "confirm" => Earlier("rewrite", i) # {}
          /\ log[i].k = "browser" =>
               \/ transformed_url(log[i].owner) = None
               \/ Earlier("rewrite", i) # {} /\ Earlier("confirm", i) # {})
  /\ [][(Running /\ Top.pc \in {"adapter", "confirm", "browser"}) =>
          /\ mainpc' = mainpc
          /\ Len(stack') \in {Len(stack), Len(stack) - 1}
          /\ Len(stack') = Len(stack) - 1 /\ Len(stack') > 0 =>
               stack'[Len(stack')].pc = stack[Len(stack')].pc]_vars


\* C25: with max_from_page set, no more than max_from_page of the PDF links
\* of a page are downloaded (none, when the cap leaves room for none), and
\* such a download is a leaf: it starts no
\* process_link call, marks nothing visited and stays in the page's loop.
C25_CapAndLeaf ==
  /\ [](args.max_from_page # None =>
          \A u \in Urls :
            \/ Requests("page_pdf", u) = {}
            \/ Cardinality(Requests("page_pdf", u)) <= args.max_from_page[1])
  /\ [][(Running /\ Top.pc = "page_pdfs" /\ Top.pdfs # <<>>) =>
          /\ Len(stack') = Len(stack)
          /\ stack'[Len(stack)].pc = "page_pdfs"
          /\ visited_urls' = visited_urls]_vars


\* C26: below max_depth the children of a generic page are the links
\* extracted from its rendered snapshot when the render produced one, and
\* only otherwise is the page requested again and its anchors parsed; each
\* child is taken from those links, is processed at current_depth + 1 and
\* only when it is not in visited_urls, and the page returns when no child
\* is left.
C26_ChildrenOfPage ==
  /\ [](\A i \in DOMAIN log :
          log[i].k = "anchors" =>
            /\ log[i].d < args.max_depth
            /\ \A j \in Requests("render", log[i].owner) : ~log[j].ok)
  /\ [][(Running /\ Top.pc = "page_links" /\ Top.depth < args.max_depth) =>
          LET new == stack'[Len(stack)] IN
          /\ Len(stack') = Len(stack)
          /\ new.pc = "page_children"
          /\ IF \E j \in Requests("render", Top.url) : log[j].ok
               THEN /\ log' = log
                    /\ new.todo = ExtractLinks(files[Top.path])
                    /\ Top.url = P /\ files[Top.path].kind = "render" =>
                         new.todo = SnapshotLinks(P)
               ELSE /\ log' = Append(log, Ev("anchors", Top.url, FALSE, Top.url, Top.depth))
                    /\ new.todo \in {{}, PageAnchors(Top.url)}]_vars
  /\ [][(Running /\ Top.pc = "page_children") =>
          LET gone == Top.todo \ stack'[Len(stack)].todo IN
          /\ Len(stack') = Len(stack) + 1 =>
               /\ stack'[Len(stack')].url \in gone
               /\ stack'[Len(stack')].url \notin visited_urls
               /\ stack'[Len(stack')].depth = Top.depth + 1
          /\ Len(stack') = Len(stack) => gone # {} /\ gone \subseteq visited_urls
          /\ Len(stack') < Len(stack) => Top.todo = {}]_vars

\* in one session a page below max_depth recursed into the links of its
\* snapshot, another into its anchors, and a link of a page was skipped
\* because it was already visited
C26_Witness ==
  /\ SessionOver
  /\ \E i \in DOMAIN log : log[i].k = "render" /\ log[i].ok /\ log[i].d < args.max_depth
  /\ \E i \in Requests("anchors", Q) : \E j \in Requests("direct", W) :
       i < j /\ log[j].d = log[i].d + 1
  /\ P \in visited_urls


\* C27: a browser runs only inside the render or Drive-download call that
\* started it: it belongs to the innermost invocation, which stands at that
\* call, so at most one runs at a time; every render and browser download
\* is made with the browser its call started, and when the call returns,
\* with or without a file, no browser is left running.
C27_BrowserPerCall ==
  /\ [](/\ Cardinality({i \in DOMAIN stack : stack[i].browser}) <= 1
        /\ \A i \in DOMAIN stack :
             stack[i].browser =>
               /\ i = Len(stack)
               /\ stack[i].pc \in {"browser", "page_pdfs"}
               /\ stack[i].pc = "page_pdfs" => stack[i].pdfs = <<>>)
  /\ [][(Running /\ Top.browser) =>
          /\ \A i \in DOMAIN stack' : ~stack'[i].browser
          /\ Len(log') > Len(log)
          /\ log'[Len(log) + 1].k \in {"render", "browser"}]_vars
  /\ [][(Len(log') > Len(log) /\ log'[Len(log) + 1].k \in {"render", "browser"}) =>
          Running /\ Top.browser]_vars

\* a browser runs for a call made below the top level, after the browsers
\* of an earlier failed and an earlier successful call were closed
C27_Witness ==
  /\ Running
  /\ Top.browser
  /\ Top.depth >= 1
  /\ \E i \in DOMAIN log : log[i].k \in {"render", "browser"} /\ log[i].ok
  /\ \E i \in DOMAIN log : log[i].k \in {"render", "browser"} /\ ~log[i].ok


\* C28: the counters a process_link invocation returns to its caller have
\* 0 <= succeeded <= attempted, and attempted is 0 exactly when the
\* invocation returned at its test of visited_urls and of the depth: an
\* invocation that went on to fetch its URL returns at least 1 attempt.
C28_ReturnedCounters ==
  [][(/\ Running
      /\ Len(stack') = Len(stack) - 1
      /\ mainpc' = mainpc
      /\ Len(stack) > 1 => stack'[Len(stack')].pc = stack[Len(stack')].pc) =>
       LET attempted == IF Len(stack) = 1
                          THEN totals'.attempted - totals.attempted
                          ELSE stack'[Len(stack')].n.attempted - stack[Len(stack')].n.attempted
           succeeded == IF Len(stack) = 1
                          THEN totals'.succeeded - totals.succeeded
                          ELSE stack'[Len(stack')].n.succeeded - stack[Len(stack')].n.succeeded
       IN
       /\ 0 <= succeeded
       /\ succeeded <= attempted
       /\ attempted = 0 <=> NoOp]_vars

\* page Q stands in its loop over child links after its child W, for which
\* nothing could be downloaded, returned an attempt and no success
C28_Witness ==
  /\ Running
  /\ Top.url = Q
  /\ Top.pc = "page_children"
  /\ Top.n.attempted >= 1
  /\ Top.n.succeeded = 0
  /\ Requests("direct", W) # {}
  /\ log[Len(log)] = Sleep


\* C29: a call of stream_download_pdf that returns None leaves the output
\* directory as it found it, so the directory never holds a partly written
\* file that a later fetch with skip_existing would return.
C29_FailedFetchLeavesNoFile ==
  /\ [][(/\ Len(log') > Len(log)
         /\ log'[Len(log) + 1].k \in {"direct", "rewrite", "page_pdf"}
         /\ ~log'[Len(log) + 1].ok) => files' = files]_vars
  /\ [](\A name \in DOMAIN files : files[name].kind # "partial")


\* C30: when every fetch of a session succeeded, every URL that a chain of
\* at most max_depth links joins to a seed link has been marked visited and
\* fetched by the end of the session.
C30_AllWithinDepthProcessed ==
  (SessionOver /\ AllDirect) =>
    \A u \in WithinHops(SeedUrls, args.max_depth) :
      u \in visited_urls /\ Requests("direct", u) # {}


\* C32: while the session goes on, an invocation that stands in the loop
\* over the links of its downloaded PDF with links still to hand to
\* process_link stays in that loop: whatever happens inside one child, the
\* remaining sibling links are not skipped.
C32_SiblingsNotSkipped ==
  [][mainpc' = "seed_loop" =>
       \A i \in DOMAIN stack :
         (stack[i].pc = "pdf_children" /\ stack[i].todo # {}) =>
           /\ i \in DOMAIN stack'
           /\ stack'[i].pc = "pdf_children"]_vars


RECURSIVE Crawled(_, _)
\* visited_urls at the end of a session in which every direct fetch succeeds,
\* computed for one iteration order of the link sets: work is the stack of
\* the loops that are open, each with the links it has yet to hand to
\* process_link and the depth it hands them at
Crawled(work, visited) ==
  IF work = <<>> THEN visited
  ELSE IF Head(work).todo = {} THEN Crawled(Tail(work), visited)
  ELSE LET sub  == CHOOSE u \in Head(work).todo : TRUE
           rest == <<[Head(work) EXCEPT !.todo = @ \ {sub}]>> \o Tail(work)
       IN
       IF sub \in visited \/ Head(work).depth > args.max_depth
         THEN Crawled(rest, visited)
         ELSE Crawled(<<[todo  |-> IF Head(work).depth < args.max_depth
                                     THEN DocLinks(sub) ELSE {},
                         depth |-> ChildDepth(Head(work).depth)]>> \o rest,
                      visited \cup {sub})

\* C31: with every fetch succeeding, the visited set and the counters at the
\* end of a session are those of any one iteration order of the child-link
\* sets, the seed links being taken in their sorted order.
C31_OrderIndependent ==
  (SessionOver /\ AllDirect) =>
    LET seeds == SeedLinks(pdfs[seedIdx])
        one   == Crawled([i \in DOMAIN seeds |-> [todo |-> {seeds[i]}, depth |-> 0]], {})
    IN
    /\ visited_urls = one
    /\ totals.succeeded = Cardinality(one)


\* C33: finalize_upload copies to the knowledge base, and hands to the
\* uploader, exactly the PDFs that are in the scraped directory and have no
\* stored exclusion flag that is true, whatever requests came before it.
C33_FinalizeTakesIncluded ==
  [][\A t \in Workers :
       (req[t].op = "finalize_upload" /\ req[t].pc = "copy") =>
         LET excluded == {item.name : item \in {item \in load_state : item.excluded}} IN
         /\ req'[t].moved = SCRAPED \ excluded
         /\ KB' = KB \cup req'[t].moved
         /\ req'[t].moved \cap excluded = {}]_vars

\* C34: a list_pdfs that finds PDFs leaves a state file with one entry for
\* each of them and no other, each with the exclusion flag stored for its
\* name before the request and false when none was stored; a list_pdfs that
\* finds none removes the state file and returns the empty list.
C34_ListRebuildsState ==
  /\ [][\A t \in Workers :
          (req[t].op = "list_pdfs" /\ req[t].pc = "save" /\ req'[t].pc = "done") =>
            /\ STATE_FILE'.exists
            /\ {item.name : item \in STATE_FILE'.items} = SCRAPED
            /\ Cardinality(STATE_FILE'.items) = Cardinality(SCRAPED)
            /\ \A item \in STATE_FILE'.items :
                 item.excluded <=>
                   \E old \in load_state : old.name = item.name /\ old.excluded]_vars
  /\ [][\A t \in Workers :
          (left'[t] < left[t] /\ req'[t].op = "list_pdfs" /\ SCRAPED = {}) =>
            /\ STATE_FILE' = Absent
            /\ req'[t].pc = "done"
            /\ req'[t].pdf_files = {}]_vars
  /\ [][\A t \in Workers :
          (left'[t] < left[t] /\ req'[t].op = "list_pdfs" /\ SCRAPED # {}) =>
            /\ STATE_FILE' = STATE_FILE
            /\ req'[t].pc = "load"]_vars

\* list_pdfs has returned: it kept a stored flag that is true and dropped
\* the entry of a file that is not in the directory
C34_Witness ==
  \E t \in Workers :
    /\ req[t].op = "list_pdfs"
    /\ req[t].pc = "done"
    /\ \E item \in STATE_FILE.items : item.excluded
    /\ \E old \in req[t].state : old.name \notin SCRAPED

C36_NoLostUpdate ==
  \A t, u \in Workers :
    (/\ t # u
     /\ req[t].pc = "done"
     /\ req[u].pc = "done"
     /\ req[t].op = "toggle_exclusion"
     /\ \/ req[u].op = "toggle_exclusion" /\ req[u].name # req[t].name
        \/ req[u].op = "list_pdfs" /\ req[t].name \in SCRAPED) =>
      /\ \A item \in STATE_FILE.items :
           item.name = req[t].name => item.excluded = req[t].excluded
      /\ \E item \in STATE_FILE.items : item.name = req[t].name
      /\ req[u].op = "list_pdfs" => SCRAPED \subseteq {item.name : item \in STATE_FILE.items}

====
